---- MODULE Spec2Model ----
(***************************************************************************)
(* The review-mutation pipeline of golang-project: ReviewService.Create,   *)
(* Update and Delete over the SQL review store, the bounded event channel  *)
(* and the background review worker.  Request goroutines interleave at the *)
(* granularity of store calls and channel operations.                      *)
(***************************************************************************)
EXTENDS Integers, Sequences, FiniteSets, TLC

\* ---------------------------------------------------------------- bounds
\* Number of service calls started in one behaviour.
MaxOps == 3
\* Capacity of the buffered events channel.
ChanCap == 2

\* RateLimit(maxPerMinute): the router passes 60; the model counts to 2.
MaxPerMinute == 2
\* window := time.Minute, in ticks of the model's clock.
Window == 2
\* The last tick of the clock, and the number of requests that reach RateLimit.
MaxTime == 4
MaxRequests == 6
\* c.ClientIP(): the client keys.
Keys == {"ip1", "ip2"}

\* Request goroutines.
Threads == {"t1", "t2"}
\* Rows of the movies table, and the movie ids a request may name.
Movies == {1}
MovieIds == {1, 2}
\* Users that call the service.
Users == {1, 2}
\* Review ids a request may name (the store assigns 1, 2, ...).
ReviewIds == {1, 2}
\* Request field values; 0 and "" are the zero values of Go's int and string.
ReqRatings == {0, 4, 9}
CreateTitles == {"a"}
CreateContents == {"x"}
UpdateTitles == {"", "b"}
UpdateContents == {""}

\* ---------------------------------------------------------------- errors
ErrValidation == "ErrValidation"
ErrMovieNotFound == "ErrMovieNotFound"
ErrReviewExists == "ErrReviewExists"
ErrReviewNotFound == "ErrReviewNotFound"
ErrInvalidCredentials == "ErrInvalidCredentials"
\* The store's error for a violated UNIQUE(movie_id, user_id).
ErrUniqueViolation == "ErrUniqueViolation"
\* The store's error for a violated CHECK (rating >= 1 AND rating <= 10).
ErrCheckViolation == "ErrCheckViolation"
\* The store's error for an average that does not fit DECIMAL(3,2).
ErrNumericOverflow == "ErrNumericOverflow"
\* A store error of the connection or the context.
ErrStore == "ErrStore"
\* The review handlers' 400 response for a rating out of range.
ErrBadRating == "rating must be between 1 and 10"
Ok == "ok"

EventReviewCreated == "review_created"
EventReviewUpdated == "review_updated"
EventReviewDeleted == "review_deleted"

VARIABLES
    reviews,      \* the reviews table: a set of rows
    nextId,       \* the next id the store assigns
    avgRating,    \* movies.average_rating per movie, in hundredths
    events,       \* the buffer of the events channel
    eventsNil,    \* TRUE when the service was built with a nil channel
    auditOn,      \* TRUE when the worker was given an audit writer
    auditLog,     \* the audit_logs table, in insertion order
    th,           \* per request goroutine: position, arguments and locals
    ops,          \* service calls started so far
    cancelled,    \* ctx.Done() is closed
    worker,       \* the review worker: state, position, event in hand
    accepted,     \* history: how many events the channel accepted; the n-th
                  \* accepted event carries seq = n
    handled,      \* history: the seq of each event the worker received, in order
    fresh,        \* history, per movie: the last run of the aggregate updater
                  \* for the movie succeeded and no statement has changed the
                  \* movie's reviews since
    ret,          \* what the last step returned: a service call's result, or
                  \* the worker's handling of one event; NoRet otherwise
    rateStore,    \* rateStore.data: per key, count and windowEnd (0: zero time)
    clock,        \* the wall clock time.Now() reads
    rl,           \* per request goroutine in RateLimit: position and locals
    requests,     \* requests that reached RateLimit so far
    entered,      \* history, per key and windowEnd: requests counted in the window
    admitted,     \* history, per key and windowEnd: of those, passed to c.Next()
    accounts,     \* the users table: a set of rows
    reg,          \* per request goroutine in AuthService.Register: position and locals
    gate,         \* the request in the chain AuthMiddleware, RequireRoles, handler
    listing,      \* the last ListByMovie or ListByUser call and its store query
    movieRows     \* the movies table with each movie's genre set, per stored id

vars == <<reviews, nextId, avgRating, events, eventsNil, auditOn, auditLog, th,
          ops, cancelled, worker, accepted, handled, fresh, ret,
          rateStore, clock, rl, requests, entered, admitted, accounts, reg,
          gate, listing, movieRows>>

store == <<reviews, nextId, avgRating>>
chan == <<events, accepted>>
wiring == <<eventsNil, auditOn>>
limiter == <<rateStore, clock, rl, requests, entered, admitted>>
others == <<accounts, reg, gate, listing, movieRows>>
\* The review service, its worker and the rate limiter, but for ops and ret.
base == <<store, chan, handled, fresh, wiring, limiter, auditLog, th, cancelled, worker>>

NoReview == [id |-> 0, movie |-> 0, user |-> 0, rating |-> 0, title |-> "", content |-> ""]
NoReq == [rating |-> 0, title |-> "", content |-> ""]
NoEvent == [type |-> "none", movie |-> 0, user |-> 0, review |-> 0, seq |-> 0]

\* A request goroutine between calls.  recomputed: the call ran the aggregate
\* updater, and avgErr: the updater returned an error; mut: the id the call's
\* store mutation was about.
Idle ==
    [pc |-> "idle", op |-> "none", movie |-> 0, user |-> 0, id |-> 0,
     admin |-> FALSE, req |-> NoReq, review |-> NoReview, mut |-> 0,
     recomputed |-> FALSE, avgErr |-> FALSE]

\* No call returned and no event was handled in the last step.
NoRet ==
    [kind |-> "none", op |-> "none", movie |-> 0, user |-> 0, id |-> 0,
     admin |-> FALSE, req |-> NoReq, review |-> NoReview, mut |-> 0,
     recomputed |-> FALSE, res |-> "none", sent |-> "none",
     e |-> NoEvent, avgN |-> 0, auditN |-> 0, avgErr |-> FALSE, auditErr |-> FALSE]

\* A goroutine outside Register.
NoRegister == [pc |-> "idle", req |-> [email |-> "", username |-> "", password |-> ""]]

\* No request in the chain: no header, nothing set on the gin context, no
\* status written, the handler not run.
NoGate ==
    [pc |-> "idle", header |-> <<"", [form |-> "", uid |-> "", role |-> "", key |-> "", expired |-> FALSE]>>, userID |-> "unset", role |-> "unset",
     status |-> 0, ran |-> FALSE]

\* The movie the table holds at start, with one genre.
SeedMovie ==
    [title |-> "Old", description |-> "", releaseYear |-> 2000, director |-> "Dir",
     durationMinutes |-> 90, genres |-> {1}]

\* No list call yet.
NoListing ==
    [op |-> "none", page |-> 0, limit |-> 0, queryLimit |-> 0, queryOffset |-> 0,
     err |-> "none"]

\* The variables of the services beside the review service, at start.
OthersInit ==
    /\ reg = [t \in Threads |-> NoRegister]
    /\ gate = NoGate
    /\ listing = NoListing
    /\ movieRows = [id \in {1} |-> SeedMovie]

\* ------------------------------------------------------------ review store
\* SELECT ... FROM reviews WHERE id = $1; NoReview stands for sql.ErrNoRows.
GetByID(id) ==
    IF \E r \in reviews : r.id = id
    THEN CHOOSE r \in reviews : r.id = id
    ELSE NoReview

\* SELECT ... FROM reviews WHERE movie_id = $1 AND user_id = $2.
GetByMovieAndUser(movieID, userID) ==
    IF \E r \in reviews : r.movie = movieID /\ r.user = userID
    THEN CHOOSE r \in reviews : r.movie = movieID /\ r.user = userID
    ELSE NoReview

\* Mutant: a reviews table without the UNIQUE(movie_id, user_id) constraint.
UniqueViolation_NoConstraint(movieID, userID) ==
    FALSE

\* UNIQUE(movie_id, user_id): an insert of a second row for the pair fails.
UniqueViolation(movieID, userID) ==
    \E r \in reviews : r.movie = movieID /\ r.user = userID

\* CHECK (rating >= 1 AND rating <= 10).
RatingCheck(rating) ==
    rating >= 1 /\ rating <= 10

\* INSERT INTO reviews ... RETURNING id: the row as stored.
InsertedRow(review) ==
    [review EXCEPT !.id = nextId]

\* UPDATE reviews SET rating, title, content WHERE id = $4: all three columns
\* of the row are written; no row matching is not an error.
UpdatedRows(review) ==
    {IF r.id = review.id
     THEN [r EXCEPT !.rating = review.rating, !.title = review.title,
                    !.content = review.content]
     ELSE r : r \in reviews}

\* DELETE FROM reviews WHERE id = $1: no row matching is not an error.
DeletedRows(id) ==
    {r \in reviews : r.id # id}

\* Mutant: a Delete that reports a missing row.
DeleteError_NoRow(id) ==
    IF \A r \in reviews : r.id # id THEN ErrReviewNotFound ELSE Ok

\* ReviewRepository.Delete returns ExecContext's error only: a DELETE that
\* matches no row succeeds.
DeleteError(id) ==
    Ok

\* audit_logs.review_id ... ON DELETE SET NULL: the audit entries of a deleted
\* review lose their review reference.
SetNull(log, id) ==
    [i \in 1..Len(log) |->
        IF log[i].review = <<id>> THEN [log[i] EXCEPT !.review = <<>>] ELSE log[i]]

\* ------------------------------------------------------------- movie store
\* Mutant: Create without the movie lookup.
MovieExists_NoLookup(movieID) ==
    TRUE

\* MovieRepository.GetByID finds a row (otherwise sql.ErrNoRows).
MovieExists(movieID) ==
    movieID \in Movies

RECURSIVE SumRatings(_)
SumRatings(S) ==
    IF S = {} THEN 0
    ELSE LET r == CHOOSE x \in S : TRUE
         IN r.rating + SumRatings(S \ {r})

\* Mutant: an average cut off after two decimals instead of rounded.
AverageOf_Truncated(rows) ==
    IF rows = {} THEN 0
    ELSE (100 * SumRatings(rows)) \div Cardinality(rows)

\* SELECT COALESCE(AVG(rating), 0) FROM reviews WHERE movie_id = $1, in
\* hundredths, rounded half up as the two-decimal column stores it.
AverageOf(rows) ==
    IF rows = {} THEN 0
    ELSE (200 * SumRatings(rows) + Cardinality(rows)) \div (2 * Cardinality(rows))

\* average_rating DECIMAL(3,2): a value of 10.00 or more does not fit the
\* column and the statement fails with a numeric overflow.
Overflows(avg) ==
    avg > 999

\* The UPDATE of UpdateAverageRating returns an error: failed stands for an
\* error of the connection or the context.
AverageFails(movieID, failed) ==
    \/ failed
    \/ /\ movieID \in Movies
       /\ Overflows(AverageOf({r \in reviews : r.movie = movieID}))

\* Mutant: an updater that blends the old value with the new average.
UpdateAverageRating_Blend(movieID, failed) ==
    IF AverageFails(movieID, failed) \/ movieID \notin Movies
    THEN avgRating
    ELSE [avgRating EXCEPT
            ![movieID] = (@ + AverageOf({r \in reviews : r.movie = movieID})) \div 2]

\* UPDATE movies SET average_rating = (...) WHERE id = $1; a movie without a
\* row is left alone.  failed: the statement returned an error.
UpdateAverageRating(movieID, failed) ==
    IF AverageFails(movieID, failed) \/ movieID \notin Movies
    THEN avgRating
    ELSE [avgRating EXCEPT ![movieID] = AverageOf({r \in reviews : r.movie = movieID})]

\* History: a statement changed a stored review of the movie.
Mutated(movieID) ==
    [m \in Movies |-> fresh[m] /\ m # movieID]

\* History: the aggregate updater ran for the movie and returned err.
Recomputed(movieID, err) ==
    [m \in Movies |-> IF m = movieID THEN ~err ELSE fresh[m]]

\* --------------------------------------------------------- review service
\* Mutant: a Create that does not run the validator.
ValidCreate_Any(req) ==
    TRUE

\* validator.Struct(CreateReviewRequest): rating required,min=1,max=10;
\* title required; content required.
ValidCreate(req) ==
    /\ req.rating # 0
    /\ req.rating >= 1
    /\ req.rating <= 10
    /\ req.title # ""
    /\ req.content # ""

\* Mutant: Create without the uniqueness pre-check.
ReviewExists_NoPreCheck(movieID, userID) ==
    FALSE

\* The pre-check of Create: GetByMovieAndUser returned a row (err == nil).
ReviewExists(movieID, userID) ==
    GetByMovieAndUser(movieID, userID) # NoReview

\* The review Create hands to the store.
NewReview(movieID, userID, req) ==
    [id |-> 0, movie |-> movieID, user |-> userID, rating |-> req.rating,
     title |-> req.title, content |-> req.content]

\* Mutant: Update without the ownership test.
MayUpdate_Anyone(review, userID) ==
    TRUE

\* Update's ownership test: only the author may update.
MayUpdate(review, userID) ==
    review.user = userID

\* Mutant: Delete that ignores isAdmin.
MayDelete_AuthorOnly(review, requester, isAdmin) ==
    review.user = requester

\* Delete's ownership test: the author, or anyone when isAdmin.
MayDelete(review, requester, isAdmin) ==
    isAdmin \/ review.user = requester

\* Mutant: an Update that overwrites every field with the request's.
ApplyUpdate_Overwrite(review, req) ==
    [review EXCEPT !.rating = req.rating, !.title = req.title,
                   !.content = req.content]

\* Update's partial overwrite: only non-zero / non-empty request fields.
ApplyUpdate(review, req) ==
    [review EXCEPT
        !.rating = IF req.rating # 0 THEN req.rating ELSE @,
        !.title = IF req.title # "" THEN req.title ELSE @,
        !.content = IF req.content # "" THEN req.content ELSE @]

\* Mutant: every event is built with the kind of a creation.
EventType_AlwaysCreated(op) ==
    EventReviewCreated

\* The event each operation builds (Time, the wall clock, is left out; seq is
\* history, set when the channel accepts the event).
EventType(op) ==
    CASE op = "create" -> EventReviewCreated
      [] op = "update" -> EventReviewUpdated
      [] op = "delete" -> EventReviewDeleted

ReviewEventOf(op, review) ==
    [type |-> EventType(op), movie |-> review.movie, user |-> review.user,
     review |-> review.id, seq |-> 0]

\* Mutant: a send that does not look at the buffer's room.
CanSend_Always(ch) ==
    TRUE

\* emitEvent's select: the send happens only when the buffer has room.
CanSend(ch) ==
    Len(ch) < ChanCap

\* The channel after a successful send.
Send(ch, e) ==
    Append(ch, e)

\* Mutant: a receive that takes the newest event.
Receive_Newest(ch) ==
    <<ch[Len(ch)], SubSeq(ch, 1, Len(ch) - 1)>>

\* The channel's receive: the oldest event, and the rest.
Receive(ch) ==
    <<Head(ch), Tail(ch)>>

\* ------------------------------------------------------------- rate limiter
\* The zero value of rateState, which a map read of a missing key returns.
NoRateState == [count |-> 0, windowEnd |-> 0]

\* A goroutine outside RateLimit.  pos: history, the request's place among the
\* requests counted in its window; firstAfter: history, the request is the
\* first of its key to arrive after the end of a window in which the key was
\* over the limit.
NoRequest == [pc |-> "out", key |-> "", now |-> 0, currentCount |-> 0,
              windowEnd |-> 0, pos |-> 0, status |-> 0, firstAfter |-> FALSE]

\* The window ends RateLimit can store.
WindowEnds == 0..(MaxTime + Window + 1)

LimiterInit ==
    /\ rateStore = [k \in Keys |-> NoRateState]
    /\ clock = 1
    /\ rl = [t \in Threads |-> NoRequest]
    /\ requests = 0
    /\ entered = [k \in Keys |-> [w \in WindowEnds |-> 0]]
    /\ admitted = [k \in Keys |-> [w \in WindowEnds |-> 0]]

\* Mutant: a window that is over at its end already.
WindowOver_AtEnd(state, now) ==
    state.windowEnd = 0 \/ now >= state.windowEnd

\* state.windowEnd.IsZero() || now.After(state.windowEnd)
WindowOver(state, now) ==
    state.windowEnd = 0 \/ now > state.windowEnd

\* The critical section: the key's state after this request was counted.
Counted(state, now) ==
    IF WindowOver(state, now)
    THEN [count |-> 1, windowEnd |-> now + Window]
    ELSE [state EXCEPT !.count = @ + 1]

\* Mutant: a limit that lets one more request through.
OverLimit_OneMore(currentCount) ==
    currentCount > MaxPerMinute + 1

\* currentCount > maxPerMinute: the request is aborted.
OverLimit(currentCount) ==
    currentCount > MaxPerMinute

\* History: the key's window is over at the time now, the key went over the
\* limit in it, and no other request of the key that arrived after its end is
\* on its way to the lock.
FirstAfter(t, key, now) ==
    /\ rateStore[key].windowEnd # 0
    /\ now > rateStore[key].windowEnd
    /\ rateStore[key].count > MaxPerMinute
    /\ \A u \in Threads \ {t} :
          ~(rl[u].pc = "lock" /\ rl[u].key = key /\ rl[u].now > rateStore[key].windowEnd)

\* key := c.ClientIP(); now := time.Now()
RateLimitNow(t) ==
    /\ rl[t].pc \in {"out", "done"}
    /\ requests < MaxRequests
    /\ requests' = requests + 1
    /\ \E key \in Keys :
          rl' = [rl EXCEPT ![t] = [NoRequest EXCEPT !.pc = "lock", !.key = key,
                                                   !.now = clock,
                                                   !.firstAfter = FirstAfter(t, key, clock)]]
    /\ UNCHANGED <<rateStore, clock, entered, admitted>>
    /\ UNCHANGED <<store, chan, handled, fresh, wiring, auditLog, th, ops, cancelled,
                   worker, ret, others>>

\* rateStore.mu.Lock() ... rateStore.mu.Unlock()
RateLimitCount(t) ==
    /\ rl[t].pc = "lock"
    /\ LET state == Counted(rateStore[rl[t].key], rl[t].now)
       IN /\ rateStore' = [rateStore EXCEPT ![rl[t].key] = state]
          /\ entered' = [entered EXCEPT ![rl[t].key][state.windowEnd] = @ + 1]
          /\ rl' = [rl EXCEPT ![t].pc = "decide", ![t].currentCount = state.count,
                              ![t].windowEnd = state.windowEnd,
                              ![t].pos = entered[rl[t].key][state.windowEnd] + 1]
    /\ UNCHANGED <<clock, requests, admitted>>
    /\ UNCHANGED <<store, chan, handled, fresh, wiring, auditLog, th, ops, cancelled,
                   worker, ret, others>>

\* if currentCount > maxPerMinute { AbortWithStatusJSON(429) } else c.Next()
RateLimitDecide(t) ==
    /\ rl[t].pc = "decide"
    /\ IF OverLimit(rl[t].currentCount)
       THEN /\ rl' = [rl EXCEPT ![t].pc = "done", ![t].status = 429]
            /\ UNCHANGED admitted
       ELSE /\ rl' = [rl EXCEPT ![t].pc = "done", ![t].status = 200]
            /\ admitted' = [admitted EXCEPT ![rl[t].key][rl[t].windowEnd] = @ + 1]
    /\ UNCHANGED <<rateStore, clock, requests, entered>>
    /\ UNCHANGED <<store, chan, handled, fresh, wiring, auditLog, th, ops, cancelled,
                   worker, ret, others>>

\* Time passes.
Tick ==
    /\ clock < MaxTime
    /\ clock' = clock + 1
    /\ UNCHANGED <<rateStore, rl, requests, entered, admitted>>
    /\ UNCHANGED <<store, chan, handled, fresh, wiring, auditLog, th, ops, cancelled,
                   worker, ret, others>>

RateNext ==
    \/ \E t \in Threads : RateLimitNow(t)
    \/ \E t \in Threads : RateLimitCount(t)
    \/ \E t \in Threads : RateLimitDecide(t)
    \/ Tick

\* ------------------------------------------------------------ auth service
\* Addresses that pass the validator's email format, and strings a login
\* request may carry as email and as password.
Emails == {"ann@x.io", "bob@x.io", "eve@x.io"}
ReqEmails == Emails \cup {"", "bad"}
Passwords == {"pw1", "pw2"}
ReqPasswords == Passwords \cup {""}
Salts == {"s1", "s2"}

\* No user, no token: what Login returns beside an error.
NoUser == [id |-> 0, email |-> "", username |-> "", hash |-> <<>>, role |-> ""]
NoToken == ""

\* bcrypt.GenerateFromPassword: a salted digest of the password.
HashPassword(password, salt) ==
    <<"bcrypt", salt, <<salt, password>>>>

\* Mutant: a comparison that accepts every password.
CheckPassword_Any(hash, password) ==
    TRUE

\* bcrypt.CompareHashAndPassword: the digest of the password under the
\* hash's salt is the hash's digest.
CheckPassword(hash, password) ==
    hash = HashPassword(password, hash[2])

\* jwt.Generate(userID, role, secret, ttl): the signed claims.
Generate(userID, role) ==
    <<"jwt", userID, role>>

\* SELECT ... FROM users WHERE email = $1; NoUser stands for sql.ErrNoRows.
GetByEmail(email) ==
    IF \E u \in accounts : u.email = email
    THEN CHOOSE u \in accounts : u.email = email
    ELSE NoUser

\* validator.Struct(LoginRequest): email required,email; password required.
ValidLogin(req) ==
    /\ req.email # ""
    /\ req.email \in Emails
    /\ req.password # ""

\* AuthService.Login.  dbFails: GetByEmail returned an error other than
\* sql.ErrNoRows; signFails: jwt.Generate returned an error.
Login(req, dbFails, signFails) ==
    LET user == GetByEmail(req.email)
    IN IF ~ValidLogin(req)
       THEN [user |-> NoUser, token |-> NoToken, err |-> ErrValidation]
       ELSE IF dbFails
       THEN [user |-> NoUser, token |-> NoToken, err |-> ErrStore]
       ELSE IF user = NoUser
       THEN [user |-> NoUser, token |-> NoToken, err |-> ErrInvalidCredentials]
       ELSE IF ~CheckPassword(user.hash, req.password)
       THEN [user |-> NoUser, token |-> NoToken, err |-> ErrInvalidCredentials]
       ELSE IF signFails
       THEN [user |-> NoUser, token |-> NoToken, err |-> "ErrSign"]
       ELSE [user |-> user, token |-> Generate(user.id, user.role), err |-> Ok]

\* The users tables of Register: one row per email at most, the row of the
\* i-th address with id i, role "user" and the hash of its password.
IdOf(email) ==
    CASE email = "ann@x.io" -> 1
      [] email = "bob@x.io" -> 2
      [] OTHER -> 3

AccountRow(email, password, salt) ==
    [id |-> IdOf(email), email |-> email, username |-> email,
     hash |-> HashPassword(password, salt), role |-> "user"]

AccountTables ==
    {{AccountRow(e, pw[e], "s1") : e \in registered} :
        registered \in SUBSET {"ann@x.io", "bob@x.io"},
        pw \in [{"ann@x.io", "bob@x.io"} -> Passwords]}

\* ------------------------------------------------------------------- Init
\* The state after construction: NewReviewService(reviews, movies, v, events)
\* and StartReviewWorker(ctx, events, movies, audit), with an events channel
\* (nil when nilChannel) and an audit writer (nil unless withAudit).
InitWired(nilChannel, withAudit) ==
    /\ reviews = {}
    /\ nextId = 1
    /\ avgRating = [m \in Movies |-> 0]
    /\ events = <<>>
    /\ eventsNil = nilChannel
    /\ auditOn = withAudit
    /\ auditLog = <<>>
    /\ th = [t \in Threads |-> Idle]
    /\ ops = 0
    /\ cancelled = FALSE
    /\ worker = [state |-> "Running", pc |-> "select", e |-> NoEvent,
                 avgN |-> 0, auditN |-> 0, avgErr |-> FALSE, auditErr |-> FALSE]
    /\ accepted = 0
    /\ handled = <<>>
    /\ fresh = [m \in Movies |-> FALSE]
    /\ ret = NoRet
    /\ LimiterInit
    /\ accounts = {}
    /\ OthersInit

Init ==
    InitWired(FALSE, TRUE)

\* The call of goroutine t (call: its record) returns res to its caller.
Returned(call, res, sent) ==
    [NoRet EXCEPT !.kind = "call", !.op = call.op, !.movie = call.movie,
                  !.user = call.user, !.id = call.id, !.admin = call.admin,
                  !.req = call.req, !.review = call.review, !.mut = call.mut,
                  !.recomputed = call.recomputed, !.avgErr = call.avgErr,
                  !.res = res, !.sent = sent]

Requests(ratings, titles, contents) ==
    [rating : ratings, title : titles, content : contents]

\* The arguments calls are made with: every value of the input sets, or the
\* calls of one author on one movie.
AllInputs ==
    [movies |-> MovieIds, users |-> Users, ids |-> ReviewIds,
     ratings |-> ReqRatings, titles |-> UpdateTitles, contents |-> UpdateContents,
     admins |-> BOOLEAN]

OneAuthor ==
    [movies |-> {1}, users |-> {1}, ids |-> {1, 2},
     ratings |-> {0, 4}, titles |-> {""}, contents |-> {""}, admins |-> {FALSE}]

\* Mutant: a call that sends its event right after the store mutation.
AfterMutation_Emit ==
    "emit"

\* Where Create, Update and Delete go after their store mutation: the
\* aggregate updater, then emitEvent.
AfterMutation ==
    "recompute"

\* ---------------------------------------------------- ReviewService.Create
\* Lines 78-88: validate the request, then look the movie up.
CreateStart(t, in) ==
    /\ th[t].pc = "idle"
    /\ ops < MaxOps
    /\ ops' = ops + 1
    /\ \E movieID \in in.movies, userID \in in.users,
          req \in Requests(in.ratings, CreateTitles, CreateContents) :
          LET call == [Idle EXCEPT !.op = "create", !.movie = movieID,
                                   !.user = userID, !.req = req]
              res == IF ~ValidCreate(req) THEN ErrValidation
                     ELSE IF ~MovieExists(movieID) THEN ErrMovieNotFound
                     ELSE Ok
          IN IF res = Ok
             THEN /\ th' = [th EXCEPT ![t] = [call EXCEPT !.pc = "c_check"]]
                  /\ ret' = NoRet
             ELSE /\ th' = th
                  /\ ret' = Returned(call, res, "none")
    /\ UNCHANGED <<store, chan, handled, fresh, wiring, limiter, others, auditLog, cancelled, worker>>

\* Lines 90-102: the uniqueness pre-check, then the review to insert.
CreateCheck(t) ==
    /\ th[t].pc = "c_check"
    /\ IF ReviewExists(th[t].movie, th[t].user)
       THEN /\ th' = [th EXCEPT ![t] = Idle]
            /\ ret' = Returned(th[t], ErrReviewExists, "none")
       ELSE /\ th' = [th EXCEPT ![t].pc = "c_insert",
                                ![t].review = NewReview(th[t].movie, th[t].user, th[t].req)]
            /\ ret' = NoRet
    /\ UNCHANGED <<store, chan, handled, fresh, wiring, limiter, others, auditLog, ops, cancelled, worker>>

\* Lines 103-105: the insert; the store assigns the id.
CreateInsert(t) ==
    /\ th[t].pc = "c_insert"
    /\ LET rv == th[t].review
           err == IF ~RatingCheck(rv.rating) THEN ErrCheckViolation
                  ELSE IF UniqueViolation(rv.movie, rv.user) THEN ErrUniqueViolation
                  ELSE Ok
       IN IF err = Ok
          THEN /\ reviews' = reviews \cup {InsertedRow(rv)}
               /\ nextId' = nextId + 1
               /\ fresh' = Mutated(rv.movie)
               /\ th' = [th EXCEPT ![t].pc = AfterMutation,
                                   ![t].review = InsertedRow(rv),
                                   ![t].mut = nextId]
               /\ ret' = NoRet
          ELSE /\ th' = [th EXCEPT ![t] = Idle]
               /\ ret' = Returned(th[t], err, "none")
               /\ UNCHANGED <<reviews, nextId, fresh>>
    /\ UNCHANGED <<avgRating, chan, handled, wiring, limiter, others, auditLog, ops, cancelled, worker>>

\* ---------------------------------------------------- ReviewService.Update
\* Lines 118-137: read the review, test ownership, overwrite the local copy.
UpdateStart(t, in) ==
    /\ th[t].pc = "idle"
    /\ ops < MaxOps
    /\ ops' = ops + 1
    /\ \E id \in in.ids, userID \in in.users,
          req \in Requests(in.ratings, in.titles, in.contents) :
          LET call == [Idle EXCEPT !.op = "update", !.id = id, !.user = userID,
                                   !.req = req]
              rv == GetByID(id)
              res == IF rv = NoReview THEN ErrReviewNotFound
                     ELSE IF ~MayUpdate(rv, userID) THEN ErrInvalidCredentials
                     ELSE Ok
          IN IF res = Ok
             THEN /\ th' = [th EXCEPT ![t] = [call EXCEPT !.pc = "u_write",
                                                !.review = ApplyUpdate(rv, req)]]
                  /\ ret' = NoRet
             ELSE /\ th' = th
                  /\ ret' = Returned([call EXCEPT !.review = rv], res, "none")
    /\ UNCHANGED <<store, chan, handled, fresh, wiring, limiter, others, auditLog, cancelled, worker>>

\* Lines 139-141: the store's Update of the local copy.
UpdateWrite(t) ==
    /\ th[t].pc = "u_write"
    /\ LET rv == th[t].review
           err == IF GetByID(rv.id) # NoReview /\ ~RatingCheck(rv.rating)
                  THEN ErrCheckViolation
                  ELSE Ok
       IN IF err = Ok
          THEN /\ reviews' = UpdatedRows(rv)
               /\ fresh' = IF GetByID(rv.id) # NoReview THEN Mutated(rv.movie) ELSE fresh
               /\ th' = [th EXCEPT ![t].pc = AfterMutation, ![t].mut = rv.id]
               /\ ret' = NoRet
          ELSE /\ th' = [th EXCEPT ![t] = Idle]
               /\ ret' = Returned(th[t], err, "none")
               /\ UNCHANGED <<reviews, fresh>>
    /\ UNCHANGED <<nextId, avgRating, chan, handled, wiring, limiter, others, auditLog, ops, cancelled,
                   worker>>

\* ---------------------------------------------------- ReviewService.Delete
\* Lines 154-163: read the review, test ownership.
DeleteStart(t, in) ==
    /\ th[t].pc = "idle"
    /\ ops < MaxOps
    /\ ops' = ops + 1
    /\ \E id \in in.ids, requester \in in.users, isAdmin \in in.admins :
          LET call == [Idle EXCEPT !.op = "delete", !.id = id, !.user = requester,
                                   !.admin = isAdmin]
              rv == GetByID(id)
              res == IF rv = NoReview THEN ErrReviewNotFound
                     ELSE IF ~MayDelete(rv, requester, isAdmin) THEN ErrInvalidCredentials
                     ELSE Ok
          IN IF res = Ok
             THEN /\ th' = [th EXCEPT ![t] = [call EXCEPT !.pc = "d_exec", !.review = rv]]
                  /\ ret' = NoRet
             ELSE /\ th' = th
                  /\ ret' = Returned([call EXCEPT !.review = rv], res, "none")
    /\ UNCHANGED <<store, chan, handled, fresh, wiring, limiter, others, auditLog, cancelled, worker>>

\* Lines 165-167: the store's Delete.
DeleteExec(t) ==
    /\ th[t].pc = "d_exec"
    /\ IF DeleteError(th[t].id) = Ok
       THEN /\ reviews' = DeletedRows(th[t].id)
            /\ fresh' = IF GetByID(th[t].id) # NoReview
                        THEN Mutated(GetByID(th[t].id).movie)
                        ELSE fresh
            /\ auditLog' = SetNull(auditLog, th[t].id)
            /\ th' = [th EXCEPT ![t].pc = AfterMutation, ![t].mut = th[t].id]
            /\ ret' = NoRet
       ELSE /\ th' = [th EXCEPT ![t] = Idle]
            /\ ret' = Returned(th[t], DeleteError(th[t].id), "none")
            /\ UNCHANGED <<reviews, fresh, auditLog>>
    /\ UNCHANGED <<nextId, avgRating, chan, handled, wiring, limiter, others, ops, cancelled,
                   worker>>

\* ------------------------------------- the tail of Create, Update and Delete
\* Mutant: a call that gives up when the aggregate updater failed.
AfterAverage_StopOnError(failed) ==
    IF failed THEN "idle" ELSE "emit"

\* Where the call goes after the aggregate updater: its error is discarded.
AfterAverage(failed) ==
    "emit"

\* _ = s.movies.UpdateAverageRating(ctx, movieID).
Recompute(t) ==
    /\ th[t].pc = "recompute"
    /\ \E failed \in BOOLEAN :
          LET err == AverageFails(th[t].review.movie, failed)
          IN /\ avgRating' = UpdateAverageRating(th[t].review.movie, failed)
             /\ fresh' = Recomputed(th[t].review.movie, err)
             /\ th' = [th EXCEPT ![t].pc = AfterAverage(err),
                                 ![t].recomputed = TRUE, ![t].avgErr = err]
    /\ ret' = NoRet
    /\ UNCHANGED <<reviews, nextId, chan, handled, wiring, limiter, others, auditLog, ops, cancelled,
                   worker>>

\* Mutant: an emitEvent without the nil test, on a channel that takes events.
SendOutcome_NilSends(isNil, ch) ==
    IF CanSend(ch) THEN "sent" ELSE "dropped"

\* What emitEvent does with the event: nothing on a nil channel, the send
\* when the buffer has room, the default case otherwise.
SendOutcome(isNil, ch) ==
    IF isNil THEN "nil"
    ELSE IF CanSend(ch) THEN "sent"
    ELSE "dropped"

\* s.emitEvent(...) and the successful return.
emitEvent(t) ==
    /\ th[t].pc = "emit"
    /\ LET e == ReviewEventOf(th[t].op, th[t].review)
           sent == SendOutcome(eventsNil, events)
       IN /\ ret' = Returned(th[t], Ok, sent)
          /\ IF sent = "sent"
             THEN /\ events' = Send(events, [e EXCEPT !.seq = accepted + 1])
                  /\ accepted' = accepted + 1
             ELSE UNCHANGED chan
    /\ th' = [th EXCEPT ![t] = Idle]
    /\ UNCHANGED <<store, handled, fresh, wiring, limiter, others, auditLog, ops, cancelled, worker>>

\* ------------------------------------------------------------ review handler
\* ReviewHandler.Create passes the request on: not (Rating < 1 || Rating > 10).
CreateAccepts(rating) ==
    ~(rating < 1 \/ rating > 10)

\* Mutant: an Update handler without the range check.
UpdateAccepts_Any(rating) ==
    TRUE

\* ReviewHandler.Update passes the request on:
\* not (Rating != 0 && (Rating < 1 || Rating > 10)).
UpdateAccepts(rating) ==
    ~(rating # 0 /\ (rating < 1 \/ rating > 10))

\* The handler answers 400 itself: the service is not called.
Reject(t, op, ratings) ==
    /\ th[t].pc = "idle"
    /\ ops < MaxOps
    /\ ops' = ops + 1
    /\ \E rating \in ratings :
          ret' = Returned([Idle EXCEPT !.op = op, !.req = [NoReq EXCEPT !.rating = rating]],
                          ErrBadRating, "none")
    /\ UNCHANGED <<store, chan, handled, fresh, wiring, limiter, others, auditLog, th, cancelled, worker>>

\* ReviewHandler.Create: the range check, then ReviewService.Create.
HandleCreate(t, in) ==
    \/ Reject(t, "create", {r \in in.ratings : ~CreateAccepts(r)})
    \/ CreateStart(t, [in EXCEPT !.ratings = {r \in in.ratings : CreateAccepts(r)}])

\* ReviewHandler.Update: the range check, then ReviewService.Update.
HandleUpdate(t, in) ==
    \/ Reject(t, "update", {r \in in.ratings : ~UpdateAccepts(r)})
    \/ UpdateStart(t, [in EXCEPT !.ratings = {r \in in.ratings : UpdateAccepts(r)}])

\* ReviewHandler.Update's status for the service's result.
UpdateStatus(res) ==
    CASE res = Ok -> 200
      [] res = ErrReviewNotFound -> 404
      [] res = ErrInvalidCredentials -> 403
      [] OTHER -> 500

\* ReviewHandler.Delete's status for the service's result.
DeleteStatus(res) ==
    CASE res = Ok -> 204
      [] res = ErrReviewNotFound -> 404
      [] res = ErrInvalidCredentials -> 403
      [] OTHER -> 500

\* Mutant: a reference that points to the zero value as well.
Ref_Always(v) ==
    <<v>>

\* ------------------------------------------------------------ review worker
\* A *int of the audit entry: <<>> is nil, <<v>> points to v.
Ref(v) ==
    IF v # 0 THEN <<v>> ELSE <<>>

\* The models.AuditLog handleReviewEvent builds.
AuditEntry(e) ==
    [user |-> Ref(e.user), movie |-> Ref(e.movie), review |-> Ref(e.review),
     event |-> e.type, details |-> ""]

\* audit_logs.movie_id REFERENCES movies(id), review_id REFERENCES
\* reviews(id): an entry that names a row which is not stored is rejected.
\* (The users the events name are stored throughout.)
ForeignKeyViolation(entry) ==
    \/ entry.movie # <<>> /\ entry.movie[1] \notin Movies
    \/ entry.review # <<>> /\ \A r \in reviews : r.id # entry.review[1]

\* Mutant: an audit_logs table without foreign keys.
AuditFails_NoForeignKey(entry, failed) ==
    failed

\* AuditRepository.Insert returns an error: the store failed, or the entry
\* violates a foreign key.
AuditFails(entry, failed) ==
    failed \/ ForeignKeyViolation(entry)

\* Mutant: a worker that never calls the aggregate updater.
NeedsRecompute_Never(e) ==
    FALSE

\* handleReviewEvent calls the aggregate updater for this event.
NeedsRecompute(e) ==
    e.movie # 0

\* Mutant: handleReviewEvent returns when the recomputation failed.
AfterRecompute_ReturnOnError(failed) ==
    IF failed THEN "select" ELSE IF auditOn THEN "audit" ELSE "select"

\* Where handleReviewEvent goes after the recomputation, whatever it returned.
AfterRecompute(failed) ==
    IF auditOn THEN "audit" ELSE "select"

\* Mutant: a loop that goes on after ctx.Done() was taken.
Looping_AfterReturn ==
    worker.pc = "select"

\* The worker is at its select and has not returned.
Looping ==
    worker.state = "Running" /\ worker.pc = "select"

\* handleReviewEvent returned: back to the select.
Handled(w) ==
    [NoRet EXCEPT !.kind = "handled", !.e = w.e, !.avgN = w.avgN, !.auditN = w.auditN,
                  !.avgErr = w.avgErr, !.auditErr = w.auditErr]

AtSelect(w) ==
    [w EXCEPT !.pc = "select", !.e = NoEvent, !.avgN = 0, !.auditN = 0,
              !.avgErr = FALSE, !.auditErr = FALSE]

\* select, case e := <-events.
WorkerReceive ==
    /\ Looping
    /\ events # <<>>
    /\ LET rc == Receive(events)
       IN /\ worker' = [worker EXCEPT !.pc = "avg", !.e = rc[1]]
          /\ events' = rc[2]
          /\ handled' = Append(handled, rc[1].seq)
    /\ ret' = NoRet
    /\ UNCHANGED <<store, accepted, fresh, wiring, limiter, others, auditLog, th, ops, cancelled>>

\* handleReviewEvent, lines 49-57.
WorkerRecompute ==
    /\ worker.state = "Running"
    /\ worker.pc = "avg"
    /\ \E failed \in BOOLEAN :
          LET called == NeedsRecompute(worker.e)
              err == called /\ AverageFails(worker.e.movie, failed)
              w == [worker EXCEPT !.avgN = IF called THEN @ + 1 ELSE @,
                                  !.avgErr = err]
          IN /\ avgRating' = IF called
                             THEN UpdateAverageRating(worker.e.movie, failed)
                             ELSE avgRating
             /\ fresh' = IF called THEN Recomputed(worker.e.movie, err) ELSE fresh
             /\ IF AfterRecompute(err) = "select"
                THEN /\ worker' = AtSelect(w)
                     /\ ret' = Handled(w)
                ELSE /\ worker' = [w EXCEPT !.pc = "audit"]
                     /\ ret' = NoRet
    /\ UNCHANGED <<reviews, nextId, chan, handled, wiring, limiter, others, auditLog, th, ops, cancelled>>

\* handleReviewEvent, lines 59-86.
WorkerAudit ==
    /\ worker.state = "Running"
    /\ worker.pc = "audit"
    /\ \E failed \in BOOLEAN :
          LET err == AuditFails(AuditEntry(worker.e), failed)
              w == [worker EXCEPT !.auditN = @ + 1, !.auditErr = err]
          IN /\ auditLog' = IF err THEN auditLog
                             ELSE Append(auditLog, AuditEntry(worker.e))
             /\ worker' = AtSelect(w)
             /\ ret' = Handled(w)
    /\ UNCHANGED <<store, chan, handled, fresh, wiring, limiter, others, th, ops, cancelled>>

\* select, case <-ctx.Done(): return.
WorkerStop ==
    /\ Looping
    /\ cancelled
    /\ worker' = [worker EXCEPT !.state = "Stopped"]
    /\ ret' = NoRet
    /\ UNCHANGED <<store, chan, handled, fresh, wiring, limiter, others, auditLog, th, ops, cancelled>>

\* The shutdown signal cancels the shared context.
Cancel ==
    /\ ~cancelled
    /\ cancelled' = TRUE
    /\ ret' = NoRet
    /\ UNCHANGED <<store, chan, handled, fresh, wiring, limiter, others, auditLog, th, ops, worker>>

\* ------------------------------------------------------------------- Spec
\* The service under concurrent calls with every input; the events channel has
\* no consumer (nothing in the repository's wiring starts the worker).
ServiceNext(in) ==
    \/ \E t \in Threads : CreateStart(t, in)
    \/ \E t \in Threads : CreateCheck(t)
    \/ \E t \in Threads : CreateInsert(t)
    \/ \E t \in Threads : UpdateStart(t, in)
    \/ \E t \in Threads : UpdateWrite(t)
    \/ \E t \in Threads : DeleteStart(t, in)
    \/ \E t \in Threads : DeleteExec(t)
    \/ \E t \in Threads : Recompute(t)
    \/ \E t \in Threads : emitEvent(t)

Next ==
    ServiceNext(AllInputs)

Spec == Init /\ [][Next]_vars

\* The service called by one caller at a time: a call starts only when no
\* other call is in progress.
Quiet ==
    \A t \in Threads : th[t].pc = "idle"

SeqNext ==
    \/ \E t \in Threads : Quiet /\ CreateStart(t, AllInputs)
    \/ \E t \in Threads : CreateCheck(t)
    \/ \E t \in Threads : CreateInsert(t)
    \/ \E t \in Threads : Quiet /\ UpdateStart(t, AllInputs)
    \/ \E t \in Threads : UpdateWrite(t)
    \/ \E t \in Threads : Quiet /\ DeleteStart(t, AllInputs)
    \/ \E t \in Threads : DeleteExec(t)
    \/ \E t \in Threads : Recompute(t)
    \/ \E t \in Threads : emitEvent(t)

SeqSpec == Init /\ [][SeqNext]_vars

\* One author's calls, one at a time, with every combination of set and unset
\* fields in the Update request.
Edits ==
    [movies |-> {1}, users |-> {1}, ids |-> {1},
     ratings |-> {0, 4, 9}, titles |-> {"", "b"}, contents |-> {"", "y"},
     admins |-> {FALSE}]

EditNext ==
    \/ \E t \in Threads : Quiet /\ CreateStart(t, Edits)
    \/ \E t \in Threads : CreateCheck(t)
    \/ \E t \in Threads : CreateInsert(t)
    \/ \E t \in Threads : Quiet /\ UpdateStart(t, Edits)
    \/ \E t \in Threads : UpdateWrite(t)
    \/ \E t \in Threads : Quiet /\ DeleteStart(t, Edits)
    \/ \E t \in Threads : DeleteExec(t)
    \/ \E t \in Threads : Recompute(t)
    \/ \E t \in Threads : emitEvent(t)

EditSpec == Init /\ [][EditNext]_vars

\* Requests through the HTTP handlers, with ratings in and out of range.
HttpInputs ==
    [movies |-> {1}, users |-> {1, 2}, ids |-> {1},
     ratings |-> {-1, 0, 4, 10, 11}, titles |-> {""}, contents |-> {""},
     admins |-> {FALSE}]

HandlerNext ==
    \/ \E t \in Threads : HandleCreate(t, HttpInputs)
    \/ \E t \in Threads : CreateCheck(t)
    \/ \E t \in Threads : CreateInsert(t)
    \/ \E t \in Threads : HandleUpdate(t, HttpInputs)
    \/ \E t \in Threads : UpdateWrite(t)
    \/ \E t \in Threads : DeleteStart(t, HttpInputs)
    \/ \E t \in Threads : DeleteExec(t)
    \/ \E t \in Threads : Recompute(t)
    \/ \E t \in Threads : emitEvent(t)

HandlerSpec == Init /\ [][HandlerNext]_vars

\* The service built with a nil events channel, under concurrent calls with
\* every input.
NilSpec == InitWired(TRUE, TRUE) /\ [][Next]_vars

\* The rate limiter under concurrent requests of two clients.
RateSpec == Init /\ [][RateNext]_vars

\* AuthService.Login on its own: any users table, any login request.
LoginInit ==
    /\ accounts \in AccountTables
    /\ OthersInit
    /\ reviews = {}
    /\ nextId = 1
    /\ avgRating = [m \in Movies |-> 0]
    /\ events = <<>>
    /\ eventsNil = FALSE
    /\ auditOn = TRUE
    /\ auditLog = <<>>
    /\ th = [t \in Threads |-> Idle]
    /\ ops = 0
    /\ cancelled = FALSE
    /\ worker = [state |-> "Running", pc |-> "select", e |-> NoEvent,
                 avgN |-> 0, auditN |-> 0, avgErr |-> FALSE, auditErr |-> FALSE]
    /\ accepted = 0
    /\ handled = <<>>
    /\ fresh = [m \in Movies |-> FALSE]
    /\ ret = NoRet
    /\ LimiterInit

\* One call of Login; ret holds the request and what the call returned.
LoginCall ==
    /\ \E email \in ReqEmails, password \in ReqPasswords,
          dbFails \in BOOLEAN, signFails \in BOOLEAN :
          LET req == [email |-> email, password |-> password]
              out == Login(req, dbFails, signFails)
          IN ret' = [kind |-> "login", req |-> req, dbFails |-> dbFails,
                     user |-> out.user, token |-> out.token, err |-> out.err]
    /\ UNCHANGED <<store, chan, handled, fresh, wiring, limiter, others, auditLog, th,
                   ops, cancelled, worker>>

LoginSpec == LoginInit /\ [][LoginCall]_vars

\* An author, another user and an administrator at one review: the service
\* with the worker and its audit writer.
AdminInputs ==
    [movies |-> {1}, users |-> {1, 2}, ids |-> {1},
     ratings |-> {4}, titles |-> {""}, contents |-> {""}, admins |-> BOOLEAN]

AuditNext ==
    \/ ServiceNext(AdminInputs)
    \/ WorkerReceive
    \/ WorkerRecompute
    \/ WorkerAudit

AuditSpec == Init /\ [][AuditNext]_vars

\* ------------------------------------------------------ AuthService.Register
ErrUserExists == "ErrUserExists"

\* Strings a registration may carry: user names of 3 to 100 characters and a
\* shorter one, the same for passwords of at least 6 characters.
Usernames == {"ann", "bob"}
ReqUsernames == Usernames \cup {"al"}
RegEmails == {"ann@x.io", "bob@x.io", "bad"}
RegPasswords == {"pw1", "pw"}

\* validator.Struct(CreateUserRequest): email required,email; username
\* required,min=3,max=100; password required,min=6.
ValidRegister(req) ==
    /\ req.email \in Emails
    /\ req.username \in Usernames
    /\ req.password \in Passwords

\* Mutant: the new user gets the administrator's role.
NewUser_Admin(req, hash) ==
    [id |-> 0, email |-> req.email, username |-> req.username, hash |-> hash,
     role |-> "admin"]

\* Lines 52-57: the user Register hands to the store.
NewUser(req, hash) ==
    [id |-> 0, email |-> req.email, username |-> req.username, hash |-> hash,
     role |-> "user"]

\* users.email and users.username are UNIQUE.
UserConflict(user) ==
    \E u \in accounts : u.email = user.email \/ u.username = user.username

\* INSERT INTO users ... RETURNING id, role, ...: the row as stored, with the
\* next serial id.
NextUserId ==
    IF accounts = {} THEN 1
    ELSE 1 + (CHOOSE n \in {u.id : u \in accounts} : \A u \in accounts : u.id <= n)

InsertedUser(user) ==
    [user EXCEPT !.id = NextUserId]

RegisterReturn(req, user, token, err) ==
    [kind |-> "register", req |-> req, user |-> user, token |-> token, err |-> err]

\* Lines 39-47: the validator, then the lookup of the email.  dbFails:
\* GetByEmail returned an error other than sql.ErrNoRows.
RegisterStart(t) ==
    /\ reg[t].pc = "idle"
    /\ ops < MaxOps
    /\ ops' = ops + 1
    /\ \E email \in RegEmails, username \in ReqUsernames, password \in RegPasswords,
          dbFails \in BOOLEAN :
          LET req == [email |-> email, username |-> username, password |-> password]
          IN IF ~ValidRegister(req)
             THEN /\ ret' = RegisterReturn(req, NoUser, NoToken, ErrValidation)
                  /\ UNCHANGED reg
             ELSE IF dbFails
             THEN /\ ret' = RegisterReturn(req, NoUser, NoToken, ErrStore)
                  /\ UNCHANGED reg
             ELSE IF GetByEmail(email) # NoUser
             THEN /\ ret' = RegisterReturn(req, NoUser, NoToken, ErrUserExists)
                  /\ UNCHANGED reg
             ELSE /\ ret' = NoRet
                  /\ reg' = [reg EXCEPT ![t] = [pc |-> "create", req |-> req]]
    /\ UNCHANGED <<base, accounts, gate, listing, movieRows>>

\* Lines 49-70: the hash, the insert and the token.  createFails: the insert
\* failed for another reason than a constraint; signFails: jwt.Generate
\* returned an error.
RegisterCreate(t) ==
    /\ reg[t].pc = "create"
    /\ reg' = [reg EXCEPT ![t] = NoRegister]
    /\ \E salt \in Salts, createFails \in BOOLEAN, signFails \in BOOLEAN :
          LET req == reg[t].req
              user == NewUser(req, HashPassword(req.password, salt))
              row == InsertedUser(user)
          IN IF createFails
             THEN /\ ret' = RegisterReturn(req, NoUser, NoToken, ErrStore)
                  /\ UNCHANGED accounts
             ELSE IF UserConflict(user) \/ user.role \notin {"user", "admin"}
             THEN /\ ret' = RegisterReturn(req, NoUser, NoToken, ErrUniqueViolation)
                  /\ UNCHANGED accounts
             ELSE /\ accounts' = accounts \cup {row}
                  /\ ret' = IF signFails
                            THEN RegisterReturn(req, NoUser, NoToken, "ErrSign")
                            ELSE RegisterReturn(req, row, Generate(row.id, row.role), Ok)
    /\ UNCHANGED <<base, ops, gate, listing, movieRows>>

RegisterNext ==
    \E t \in Threads : RegisterStart(t) \/ RegisterCreate(t)

RegisterSpec == Init /\ [][RegisterNext]_vars

\* ------------------------------------------------- AuthMiddleware, RequireRoles
\* Tokens: a JWT has claims, the key that signed it and may be past its
\* ExpiresAt; Malformed is a string that is no JWT, NoBearerToken no string.
Secret == "secret"
TokenRoles == {"user", "admin", "editor"}
SignedTokens ==
    [form : {"jwt"}, uid : {"1"}, role : TokenRoles, key : {Secret, "other"},
     expired : BOOLEAN]
Malformed == [form |-> "invalid", uid |-> "", role |-> "", key |-> "", expired |-> FALSE]
NoBearerToken == [form |-> "", uid |-> "", role |-> "", key |-> "", expired |-> FALSE]
Tokens == SignedTokens \cup {Malformed, NoBearerToken}

\* The Authorization header: what precedes the token, and the token.
Prefixes == {"", "Bearer ", "bearer ", "Basic "}
NoHeader == <<"", NoBearerToken>>
Headers == {NoHeader} \cup {<<p, tk>> : p \in Prefixes \ {""}, tk \in Tokens}

\* authHeader == "" || !strings.HasPrefix(authHeader, "Bearer ")
NoBearer(header) ==
    header = NoHeader \/ header[1] # "Bearer "

\* strings.TrimPrefix(authHeader, "Bearer "): without the prefix the whole
\* header is left, which is no JWT.
TrimPrefix(header) ==
    IF header[1] = "Bearer " THEN header[2] ELSE Malformed

\* Mutant: a parser that does not verify the signature.
Parses_Unverified(token, secret) ==
    /\ token \in SignedTokens
    /\ ~token.expired

\* jwt.Parse returns claims: the string is a JWT signed with the secret and
\* not expired.
Parses(token, secret) ==
    /\ token \in SignedTokens
    /\ token.key = secret
    /\ ~token.expired

\* RequireRoles("admin"): the allowed set.
Allowed == {"admin"}

\* A request enters the chain.
GateArrive ==
    /\ gate.pc \in {"idle", "done"}
    /\ ops < MaxOps
    /\ ops' = ops + 1
    /\ \E header \in Headers :
          gate' = [NoGate EXCEPT !.pc = "auth", !.header = header]
    /\ UNCHANGED <<base, ret, accounts, reg, listing, movieRows>>

\* AuthMiddleware, lines 19-35.
GateAuth ==
    /\ gate.pc = "auth"
    /\ LET token == TrimPrefix(gate.header)
       IN IF NoBearer(gate.header)
          THEN gate' = [gate EXCEPT !.pc = "done", !.status = 401]
          ELSE IF ~Parses(token, Secret)
          THEN gate' = [gate EXCEPT !.pc = "done", !.status = 401]
          ELSE gate' = [gate EXCEPT !.pc = "roles", !.userID = token.uid,
                                    !.role = token.role]
    /\ UNCHANGED <<base, ops, ret, accounts, reg, listing, movieRows>>

\* Mutant: a gate that lets every authenticated role pass.
RoleAllowed_Any(role) ==
    TRUE

\* _, ok := allowed[role]
RoleAllowed(role) ==
    role \in Allowed

\* RequireRoles, lines 45-61.  The context value is the string AuthMiddleware
\* set, so the type assertion holds whenever the value exists.
GateRoles ==
    /\ gate.pc = "roles"
    /\ IF gate.role = "unset"
       THEN gate' = [gate EXCEPT !.pc = "done", !.status = 403]
       ELSE IF ~RoleAllowed(gate.role)
       THEN gate' = [gate EXCEPT !.pc = "done", !.status = 403]
       ELSE gate' = [gate EXCEPT !.pc = "handler"]
    /\ UNCHANGED <<base, ops, ret, accounts, reg, listing, movieRows>>

\* The handler behind the gate.
GateHandler ==
    /\ gate.pc = "handler"
    /\ gate' = [gate EXCEPT !.pc = "done", !.status = 200, !.ran = TRUE]
    /\ UNCHANGED <<base, ops, ret, accounts, reg, listing, movieRows>>

GateNext ==
    \/ GateArrive
    \/ GateAuth
    \/ GateRoles
    \/ GateHandler

GateSpec == Init /\ [][GateNext]_vars

\* ---------------------------------- ReviewService.ListByMovie, ListByUser
\* Go's int, as a two's complement integer of IntBits bits.
IntBits == 8
MaxInt == 2 ^ (IntBits - 1) - 1
MinInt == 0 - 2 ^ (IntBits - 1)
GoInt == MinInt .. MaxInt

\* The pages and limits a request may carry (strconv.Atoi of the query).
ReqPages == {MinInt, -1, 0, 1, 2, 3, 6, MaxInt}
ReqLimits == {MinInt, -1, 0, 1, 2, 10, 50, MaxInt}

\* The value an int holds after an arithmetic result x: x modulo 2^IntBits.
Wrap(x) ==
    ((x - MinInt) % (2 ^ IntBits)) + MinInt

\* Mutant: a page below 1 is left as it is.
PageOf_Raw(page) ==
    page

\* if page <= 0 { page = 1 }
PageOf(page) ==
    IF page <= 0 THEN 1 ELSE page

\* if limit <= 0 { limit = 10 }
LimitOf(limit) ==
    IF limit <= 0 THEN 10 ELSE limit

\* offset := (page - 1) * limit
OffsetOf(page, limit) ==
    Wrap(Wrap(PageOf(page) - 1) * LimitOf(limit))

\* LIMIT $n OFFSET $m: the store rejects a negative offset.
QueryError(limit, offset) ==
    IF offset < 0 THEN ErrStore ELSE Ok

\* One call of op with (page, limit): the query it hands to the store.
Listed(op, page, limit) ==
    [op |-> op, page |-> page, limit |-> limit, queryLimit |-> LimitOf(limit),
     queryOffset |-> OffsetOf(page, limit),
     err |-> QueryError(LimitOf(limit), OffsetOf(page, limit))]

ListByMovie ==
    /\ \E page \in ReqPages, limit \in ReqLimits :
          listing' = Listed("ListByMovie", page, limit)
    /\ UNCHANGED <<base, ops, ret, accounts, reg, gate, movieRows>>

ListByUser ==
    /\ \E page \in ReqPages, limit \in ReqLimits :
          listing' = Listed("ListByUser", page, limit)
    /\ UNCHANGED <<base, ops, ret, accounts, reg, gate, movieRows>>

ListNext ==
    \/ ListByMovie
    \/ ListByUser

ListSpec == Init /\ [][ListNext]_vars

\* ------------------------------------------------------ MovieService.Update
ErrNoGenresProvided == "ErrNoGenresProvided"
ErrGenreNotFound == "ErrGenreNotFound"

\* The genres table, and the genre_ids a request may carry: absent (nil), or
\* a list of strings.
Genres == {1, 2}
NoGenreIDs == [nil |-> TRUE, ids |-> <<>>]
ReqGenreIDs ==
    {NoGenreIDs} \cup
    {[nil |-> FALSE, ids |-> l] : l \in {<<>>, <<"2">>, <<"1", "2">>, <<"9">>, <<"x">>,
                                         <<"2", "9">>}}

\* models.UpdateMovieRequest: a field left out has its zero value.
NoMovieRequest ==
    [title |-> "", description |-> "", releaseYear |-> 0, director |-> "",
     durationMinutes |-> 0, genreIDs |-> NoGenreIDs]

\* The requests: no scalar field set, single fields, some and all of them,
\* each with every genre_ids.
ScalarRequests ==
    {NoMovieRequest,
     [NoMovieRequest EXCEPT !.title = "New"],
     [NoMovieRequest EXCEPT !.releaseYear = 2001],
     [NoMovieRequest EXCEPT !.durationMinutes = 120],
     [NoMovieRequest EXCEPT !.description = "Desc", !.director = "Dir2"],
     [NoMovieRequest EXCEPT !.title = "New", !.description = "Desc",
                            !.releaseYear = 2001, !.director = "Dir2",
                            !.durationMinutes = 120]}

MovieRequests ==
    {[s EXCEPT !.genreIDs = g] : s \in ScalarRequests, g \in ReqGenreIDs}

\* strconv.Atoi: <<n>> for the digits of n, <<>> for an error.
Atoi(str) ==
    CASE str = "1" -> <<1>>
      [] str = "2" -> <<2>>
      [] str = "9" -> <<9>>
      [] OTHER -> <<>>

\* validateGenreIDs: the ids in order, or ErrGenreNotFound at the first
\* string that is no number or names no stored genre.
RECURSIVE validateGenreIDs(_)
validateGenreIDs(ids) ==
    IF ids = <<>> THEN [err |-> Ok, genreIDs |-> <<>>]
    ELSE IF Atoi(Head(ids)) = <<>> THEN [err |-> ErrGenreNotFound, genreIDs |-> <<>>]
    ELSE IF Atoi(Head(ids))[1] \notin Genres
    THEN [err |-> ErrGenreNotFound, genreIDs |-> <<>>]
    ELSE LET rest == validateGenreIDs(Tail(ids))
         IN IF rest.err # Ok THEN rest
            ELSE [err |-> Ok, genreIDs |-> <<Atoi(Head(ids))[1]>> \o rest.genreIDs]

\* Mutant: an Update that takes over the title only.
Patch_TitleOnly(movie, req) ==
    [movie EXCEPT !.title = IF req.title # "" THEN req.title ELSE @]

\* Lines 478-492: the fields of the request that are set overwrite the movie.
Patch(movie, req) ==
    [movie EXCEPT
        !.title = IF req.title # "" THEN req.title ELSE @,
        !.description = IF req.description # "" THEN req.description ELSE @,
        !.releaseYear = IF req.releaseYear # 0 THEN req.releaseYear ELSE @,
        !.director = IF req.director # "" THEN req.director ELSE @,
        !.durationMinutes = IF req.durationMinutes # 0 THEN req.durationMinutes ELSE @]

\* MovieRepository.Update: the five columns of the row are written.
UpdatedMovies(id, movie) ==
    [movieRows EXCEPT ![id] = [movie EXCEPT !.genres = movieRows[id].genres]]

\* MovieRepository.SetGenres: the movie's genre rows are replaced.
WithGenres(rows, id, genreIDs) ==
    [rows EXCEPT ![id].genres = {genreIDs[i] : i \in 1..Len(genreIDs)}]

\* MovieService.Update: the table after the call and the error returned.
\* updateFails: MovieRepository.Update returned an error.
MovieUpdated(id, req, updateFails) ==
    IF id \notin DOMAIN movieRows
    THEN [rows |-> movieRows, err |-> ErrMovieNotFound]
    ELSE IF updateFails
    THEN [rows |-> movieRows, err |-> ErrStore]
    ELSE LET written == UpdatedMovies(id, Patch(movieRows[id], req))
             checked == validateGenreIDs(req.genreIDs.ids)
         IN IF req.genreIDs.nil THEN [rows |-> written, err |-> Ok]
            ELSE IF Len(req.genreIDs.ids) = 0
            THEN [rows |-> written, err |-> ErrNoGenresProvided]
            ELSE IF checked.err # Ok
            THEN [rows |-> written, err |-> checked.err]
            ELSE [rows |-> WithGenres(written, id, checked.genreIDs), err |-> Ok]

\* One call of MovieService.Update; ret holds the arguments and the error.
MovieUpdate ==
    /\ \E id \in MovieIds, req \in MovieRequests, updateFails \in BOOLEAN :
          LET out == MovieUpdated(id, req, updateFails)
          IN /\ movieRows' = out.rows
             /\ ret' = [kind |-> "movie", id |-> id, req |-> req, err |-> out.err]
    /\ UNCHANGED <<base, ops, accounts, reg, gate, listing>>

MovieSpec == Init /\ [][MovieUpdate]_vars

\* The whole pipeline: one author's calls, the channel, the worker and the
\* cancellation of the shared context.
WorkerNext ==
    \/ WorkerReceive
    \/ WorkerRecompute
    \/ WorkerAudit
    \/ WorkerStop
    \/ Cancel

PipelineNext ==
    \/ ServiceNext(OneAuthor)
    \/ WorkerNext

PipelineSpec == Init /\ [][PipelineNext]_vars

\* Scheduling: the worker goroutine keeps running, and Go's select chooses at
\* random among its ready cases, so a ready ctx.Done() is taken in the end.
FairPipelineSpec ==
    /\ PipelineSpec
    /\ WF_vars(WorkerRecompute)
    /\ WF_vars(WorkerAudit)
    /\ SF_vars(WorkerStop)

\* The aggregate under concurrent calls of two authors on one movie and the
\* recomputations of a worker without an audit writer.  A third author's
\* review (id 1, rating 4) is stored from the start or not, with the
\* movie's average recomputed since.
TwoAuthors ==
    [movies |-> {1}, users |-> {1, 2}, ids |-> {2},
     ratings |-> {4, 9}, titles |-> {""}, contents |-> {""}, admins |-> {FALSE}]

EarlierReview ==
    [id |-> 1, movie |-> 1, user |-> 3, rating |-> 4, title |-> "a", content |-> "x"]

AggregateInit ==
    /\ reviews \in {{}, {EarlierReview}}
    /\ nextId = 2
    /\ avgRating = [m \in Movies |-> AverageOf({r \in reviews : r.movie = m})]
    /\ fresh = [m \in Movies |-> TRUE]
    /\ events = <<>>
    /\ eventsNil = FALSE
    /\ auditOn = FALSE
    /\ auditLog = <<>>
    /\ th = [t \in Threads |-> Idle]
    /\ ops = 0
    /\ cancelled = FALSE
    /\ worker = [state |-> "Running", pc |-> "select", e |-> NoEvent,
                 avgN |-> 0, auditN |-> 0, avgErr |-> FALSE, auditErr |-> FALSE]
    /\ accepted = 0
    /\ handled = <<>>
    /\ ret = NoRet
    /\ LimiterInit
    /\ accounts = {}
    /\ OthersInit

AggregateNext ==
    \/ ServiceNext(TwoAuthors)
    \/ WorkerReceive
    \/ WorkerRecompute

AggregateSpec == AggregateInit /\ [][AggregateNext]_vars

\* handleReviewEvent on any event: the worker and its audit writer at a
\* channel that a producer fills with events whose references may be zero,
\* over a store that holds one review.
EventInputs ==
    [type : {EventReviewCreated, EventReviewDeleted},
     movie : {0, 1}, user : {0, 1}, review : {0, 1}, seq : {0}]

HandleInit ==
    /\ reviews = {EarlierReview}
    /\ nextId = 2
    /\ avgRating = [m \in Movies |-> AverageOf({r \in reviews : r.movie = m})]
    /\ fresh = [m \in Movies |-> TRUE]
    /\ events = <<>>
    /\ eventsNil = FALSE
    /\ auditOn = TRUE
    /\ auditLog = <<>>
    /\ th = [t \in Threads |-> Idle]
    /\ ops = 0
    /\ cancelled = FALSE
    /\ worker = [state |-> "Running", pc |-> "select", e |-> NoEvent,
                 avgN |-> 0, auditN |-> 0, avgErr |-> FALSE, auditErr |-> FALSE]
    /\ accepted = 0
    /\ handled = <<>>
    /\ ret = NoRet
    /\ LimiterInit
    /\ accounts = {}
    /\ OthersInit

\* events <- e, by whoever holds the channel's sending end.
SendEvent ==
    /\ ops < MaxOps
    /\ CanSend(events)
    /\ ops' = ops + 1
    /\ \E e \in EventInputs :
          events' = Send(events, [e EXCEPT !.seq = accepted + 1])
    /\ accepted' = accepted + 1
    /\ ret' = NoRet
    /\ UNCHANGED <<store, handled, fresh, wiring, limiter, others, auditLog, th, cancelled,
                   worker>>

HandleNext ==
    \/ SendEvent
    \/ WorkerReceive
    \/ WorkerRecompute
    \/ WorkerAudit

HandleSpec == HandleInit /\ [][HandleNext]_vars

\* The aggregate updater on its own: any reviews table of three authors of
\* movie 1 (the review of author u has id u), any stored average, and runs
\* of UpdateAverageRating one after the other.
TableRatings == {4, 9, 10}
StaleAverages == {0, 400, 650}

TableOf(rating) ==
    {[id |-> u, movie |-> 1, user |-> u, rating |-> rating[u], title |-> "a",
      content |-> "x"] : u \in {u \in DOMAIN rating : rating[u] # 0}}

RecomputeInit ==
    /\ \E rating \in [{1, 2, 3} -> TableRatings \cup {0}] : reviews = TableOf(rating)
    /\ nextId = 4
    /\ avgRating \in [Movies -> StaleAverages]
    /\ events = <<>>
    /\ eventsNil = FALSE
    /\ auditOn = TRUE
    /\ auditLog = <<>>
    /\ th = [t \in Threads |-> Idle]
    /\ ops = 0
    /\ cancelled = FALSE
    /\ worker = [state |-> "Running", pc |-> "select", e |-> NoEvent,
                 avgN |-> 0, auditN |-> 0, avgErr |-> FALSE, auditErr |-> FALSE]
    /\ accepted = 0
    /\ handled = <<>>
    /\ fresh = [m \in Movies |-> FALSE]
    /\ ret = NoRet
    /\ LimiterInit
    /\ accounts = {}
    /\ OthersInit

\* One run of UpdateAverageRating(ctx, movieID).  ret.avgN is 2 when the run
\* before it was for the same movie and reached the store.
RunAverage ==
    /\ \E movieID \in MovieIds, failed \in BOOLEAN :
          LET err == AverageFails(movieID, failed)
              res == IF failed THEN ErrStore
                     ELSE IF err THEN ErrNumericOverflow
                     ELSE Ok
              again == ret.kind = "average" /\ ret.movie = movieID /\ ret.res # ErrStore
          IN /\ avgRating' = UpdateAverageRating(movieID, failed)
             /\ fresh' = Recomputed(movieID, err)
             /\ ret' = [NoRet EXCEPT !.kind = "average", !.movie = movieID,
                                     !.res = res, !.avgErr = err,
                                     !.avgN = IF again THEN 2 ELSE 1]
    /\ UNCHANGED <<reviews, nextId, chan, handled, wiring, limiter, others, auditLog, th, ops,
                   cancelled, worker>>

RecomputeSpec == RecomputeInit /\ [][RunAverage]_vars

\* The pipeline while the context is never cancelled: one author's calls,
\* which name the first review, and the worker.  Scheduling: the worker
\* goroutine keeps running, and the events case is the only ready case of its
\* select, so a waiting event is received.
OneReview ==
    [OneAuthor EXCEPT !.ids = {1}]

LiveNext ==
    \/ ServiceNext(OneReview)
    \/ WorkerReceive
    \/ WorkerRecompute
    \/ WorkerAudit

LivePipelineSpec ==
    /\ Init
    /\ [][LiveNext]_vars
    /\ WF_vars(WorkerReceive)
    /\ WF_vars(WorkerRecompute)
    /\ WF_vars(WorkerAudit)

\* ================================================================= claims
\* No two rows of the reviews table are about the same (movie, author) pair.
AtMostOnePerPair ==
    \A r1, r2 \in reviews :
        (r1.movie = r2.movie /\ r1.user = r2.user) => r1 = r2

\* A call returns in this step.
Returns(op) ==
    ret'.kind = "call" /\ ret'.op = op

\* A call starts in this step and returns at once.
ReturnsAtOnce(op) ==
    Returns(op) /\ ops' # ops

\* Goroutine t starts a call of op in this step and the call goes on.
GoesOn(t, op) ==
    th[t].pc = "idle" /\ th'[t].pc # "idle" /\ th'[t].op = op

\* The store and the channel are as they were.
NothingChanged ==
    UNCHANGED <<reviews, nextId, avgRating, events, accepted, auditLog>>

\* C1: with one call at a time, a valid Create for a (movie, author) pair that
\* already has a review returns ErrReviewExists and changes no stored review,
\* and every (movie, author) pair has at most one stored review.
C1_Step ==
    (/\ Returns("create")
     /\ ValidCreate(ret'.req)
     /\ \E r \in reviews :
           r.movie = ret'.movie /\ r.user = ret'.user /\ r.id # ret'.mut)
    => (ret'.res = ErrReviewExists /\ ret'.mut = 0 /\ reviews' = reviews)

C1_SequentialUniqueness ==
    [][C1_Step /\ AtMostOnePerPair']_vars

\* C1 witness: a second Create for the pair, asking for another rating, was
\* refused and the first review is there with its rating.
C1_Witness ==
    /\ ret.kind = "call"
    /\ ret.op = "create"
    /\ ret.res = ErrReviewExists
    /\ \E r \in reviews :
          r.movie = ret.movie /\ r.user = ret.user /\ r.rating # ret.req.rating

\* C2: under interleaved calls every (movie, author) pair has at most one
\* stored review in every reachable state, and a Create that inserted nothing
\* returns an error and sends no event.
C2_UniqueUnderConcurrency ==
    /\ AtMostOnePerPair
    /\ (ret.kind = "call" /\ ret.op = "create" /\ ret.mut = 0)
       => (ret.res # Ok /\ ret.sent = "none" /\ ~ret.recomputed)

\* C2 witness: a Create passed the pre-check and lost the race at the insert.
C2_Witness ==
    /\ ret.kind = "call"
    /\ ret.op = "create"
    /\ ret.res = ErrUniqueViolation
    /\ \E r \in reviews : r.movie = ret.movie /\ r.user = ret.user

\* C3: a valid Create for a movie id without a row returns ErrMovieNotFound in
\* its first step and changes nothing: no review, no recomputation, no event.
C3_Step ==
    /\ \A t \in Threads : GoesOn(t, "create") => th'[t].movie \in Movies
    /\ (Returns("create") /\ ValidCreate(ret'.req) /\ ret'.movie \notin Movies)
       => /\ ret'.res = ErrMovieNotFound
          /\ ret'.mut = 0
          /\ ~ret'.recomputed
          /\ ret'.sent = "none"
          /\ NothingChanged

C3_CreateMovieNotFound ==
    [][C3_Step]_vars

\* C3 witness: a valid Create named a movie without a row.
C3_Witness ==
    /\ ret.kind = "call"
    /\ ret.op = "create"
    /\ ret.movie \notin Movies
    /\ ret.res = ErrMovieNotFound

\* C4: an Update goes on only for an existing review and its author; for any
\* other requester of an existing review it returns ErrInvalidCredentials
\* (status 403), for a missing review ErrReviewNotFound, and in both cases
\* the stored reviews are unchanged.
C4_Step ==
    /\ \A t \in Threads :
          GoesOn(t, "update") =>
             \E r \in reviews : r.id = th'[t].id /\ r.user = th'[t].user
    /\ ReturnsAtOnce("update") =>
          /\ NothingChanged
          /\ IF \E r \in reviews : r.id = ret'.id
             THEN /\ \A r \in reviews : r.id = ret'.id => r.user # ret'.user
                  /\ ret'.res = ErrInvalidCredentials
                  /\ UpdateStatus(ret'.res) = 403
             ELSE ret'.res = ErrReviewNotFound

C4_UpdateAuthorOnly ==
    [][C4_Step]_vars

\* C4 witness: a user who is not the author asked to update a stored review.
C4_Witness ==
    /\ ret.kind = "call"
    /\ ret.op = "update"
    /\ ret.res = ErrInvalidCredentials
    /\ \E r \in reviews : r.id = ret.id /\ r.user # ret.user /\ r = ret.review

\* C5: a Delete goes on exactly for an existing review whose author is the
\* requester or when isAdmin; otherwise it returns ErrInvalidCredentials
\* (review exists, left stored) or ErrReviewNotFound (no such review); a
\* Delete that goes on returns success and the review is gone.
C5_Step ==
    /\ \A t \in Threads :
          GoesOn(t, "delete") =>
             \E r \in reviews :
                r.id = th'[t].id /\ (r.user = th'[t].user \/ th'[t].admin)
    /\ ReturnsAtOnce("delete") =>
          /\ NothingChanged
          /\ IF \E r \in reviews : r.id = ret'.id
             THEN /\ \A r \in reviews : r.id = ret'.id => r.user # ret'.user
                  /\ ~ret'.admin
                  /\ ret'.res = ErrInvalidCredentials
             ELSE ret'.res = ErrReviewNotFound
    /\ (Returns("delete") /\ ops' = ops) =>
          /\ ret'.res = Ok
          /\ ~\E r \in reviews' : r.id = ret'.id

C5_DeleteAuthorOrAdmin ==
    [][C5_Step]_vars

\* C5 witness: an administrator who is not the author deleted a review.
C5_Witness ==
    /\ ret.kind = "call"
    /\ ret.op = "delete"
    /\ ret.res = Ok
    /\ ret.admin
    /\ ret.review.user # ret.user
    /\ GetByID(ret.id) = NoReview

\* C5 witness: a user who is neither author nor administrator was refused.
C5_WitnessForbidden ==
    /\ ret.kind = "call"
    /\ ret.op = "delete"
    /\ ret.res = ErrInvalidCredentials
    /\ GetByID(ret.id) = ret.review

\* Goroutine t runs emitEvent in this step.
Emits(t) ==
    th[t].pc = "emit" /\ th'[t].pc = "idle"

\* The event kind that goes with an operation.
KindOf(op) ==
    IF op = "create" THEN "review_created"
    ELSE IF op = "update" THEN "review_updated"
    ELSE "review_deleted"

\* C6: a call returns success only from emitEvent; when the channel is not
\* nil and has room at that moment, exactly one event is appended, of the kind
\* of the operation and with the id of the row the store mutation was about.
C6_Step ==
    /\ (ret'.kind = "call" /\ ret'.res = Ok) => \E t \in Threads : Emits(t)
    /\ \A t \in Threads :
          (Emits(t) /\ ~eventsNil /\ Len(events) < ChanCap) =>
             /\ ret'.res = Ok
             /\ ret'.sent = "sent"
             /\ Len(events') = Len(events) + 1
             /\ SubSeq(events', 1, Len(events)) = events
             /\ events'[Len(events')].type = KindOf(th[t].op)
             /\ events'[Len(events')].review = th[t].mut
             /\ th[t].mut # 0

C6_EventPerMutation ==
    [][C6_Step]_vars

\* C6 witness: a successful Update's event is the newest in the channel.
C6_Witness ==
    /\ ret.kind = "call"
    /\ ret.op = "update"
    /\ ret.sent = "sent"
    /\ events # <<>>
    /\ events[Len(events)].type = EventReviewUpdated
    /\ events[Len(events)].review = ret.mut

\* C7: the channel never holds more than its capacity; emitEvent can always
\* run; on a full channel it drops the event, leaves the channel and the
\* stored reviews as they are, and the call returns success.
C7_Step ==
    /\ Len(events') <= ChanCap
    /\ \A t \in Threads : th[t].pc = "emit" => ENABLED emitEvent(t)
    /\ \A t \in Threads :
          (Emits(t) /\ ~eventsNil /\ Len(events) >= ChanCap) =>
             /\ events' = events
             /\ reviews' = reviews
             /\ ret'.res = Ok
             /\ ret'.sent = "dropped"
             /\ ret'.mut # 0

C7_NonBlockingSend ==
    [][C7_Step]_vars

\* C7 witness: a call returned success with its event dropped on a full channel.
C7_Witness ==
    /\ ret.kind = "call"
    /\ ret.res = Ok
    /\ ret.sent = "dropped"
    /\ Len(events) = ChanCap

\* C8: the worker, given an audit writer, handles an event with a non-zero
\* movie reference by one call of the aggregate updater and one call of the
\* audit writer, whether or not either failed, and goes on Running.
C8_BothSideEffects ==
    /\ worker.avgN <= 1
    /\ worker.auditN <= 1
    /\ (ret.kind = "handled" /\ ret.e.movie # 0 /\ auditOn) =>
          /\ ret.avgN = 1
          /\ ret.auditN = 1
          /\ worker.state = "Running"
          /\ worker.pc = "select"

\* C8 witness: an event was handled whose recomputation failed and whose audit
\* write was made all the same.
C8_Witness ==
    /\ ret.kind = "handled"
    /\ ret.e.movie # 0
    /\ ret.avgErr
    /\ ret.auditN = 1

\* C9: the events the worker has received are, in order, the first events the
\* channel accepted: the i-th received is the i-th accepted.
C9_HandledPrefix ==
    /\ Len(handled) <= accepted
    /\ \A i \in 1..Len(handled) : handled[i] = i

\* C9 witness: two events received, a third one accepted and waiting.
C9_Witness ==
    /\ Len(handled) = 2
    /\ accepted = 3
    /\ Len(events) = 1

\* C10: once the context is cancelled the worker eventually stops, and a
\* stopped worker stays stopped, receives nothing more and writes no further
\* audit entry.
C10_WorkerStops ==
    /\ cancelled ~> (worker.state = "Stopped")
    /\ [][worker.state = "Stopped" =>
             (/\ worker' = worker
              /\ handled' = handled
              /\ Len(auditLog') = Len(auditLog))]_vars

\* C10 witness: the worker stopped although no event ever reached the channel.
C10_Witness ==
    /\ worker.state = "Stopped"
    /\ accepted = 0
    /\ events = <<>>

\* C11: while the context is never cancelled and the worker is scheduled
\* fairly, the n-th event the channel accepted is eventually received by the
\* worker, and a successful Create whose event was accepted as the n-th leads
\* to the worker's handling of that event with one call of the aggregate
\* updater for the movie of the new review.
C11_AcceptedHandled ==
    /\ []~cancelled
    /\ \A n \in 1..MaxOps :
            /\ (accepted >= n) ~> (Len(handled) >= n)
            /\ (/\ ret.kind = "call"
                /\ ret.op = "create"
                /\ ret.res = Ok
                /\ ret.sent = "sent"
                /\ accepted = n)
               ~> (/\ ret.kind = "handled"
                   /\ ret.e.seq = n
                   /\ ret.e.type = EventReviewCreated
                   /\ ret.e.movie \in Movies
                   /\ ret.avgN = 1)

\* C11 witness: without cancellation, the event of a Create was handled with a
\* call of the aggregate updater that set the movie's average to the rating.
C11_Witness ==
    /\ ~cancelled
    /\ ret.kind = "handled"
    /\ ret.e.type = EventReviewCreated
    /\ ret.avgN = 1
    /\ ~ret.avgErr
    /\ reviews # {}
    /\ avgRating[ret.e.movie] = 400

\* C12: whatever the aggregate updater returned, the call goes on to emitEvent
\* with the stored reviews as its mutation left them; a call whose updater
\* failed returns success from emitEvent, which leaves the stored reviews
\* alone and sends the event when the channel has room.
C12_Step ==
    /\ \A t \in Threads :
          (th[t].pc = "recompute" /\ th'[t] # th[t]) =>
             /\ th'[t].pc = "emit"
             /\ th'[t].review = th[t].review
             /\ reviews' = reviews
             /\ nextId' = nextId
    /\ \A t \in Threads :
          (Emits(t) /\ th[t].avgErr) =>
             /\ ret'.res = Ok
             /\ ret'.avgErr
             /\ ret'.mut # 0
             /\ reviews' = reviews
             /\ ret'.sent = IF eventsNil THEN "nil"
                            ELSE IF Len(events) < ChanCap THEN "sent"
                            ELSE "dropped"
             /\ ret'.sent = "sent" =>
                   /\ Len(events') = Len(events) + 1
                   /\ events'[Len(events')].review = ret'.mut
    /\ (ret'.kind = "call" /\ ret'.avgErr) => ret'.res = Ok

C12_RecomputeFailureIgnored ==
    [][C12_Step]_vars

\* C12 witness: a Delete whose aggregate update failed returned success, the
\* review is gone, the average is stale and the event is in the channel.
C12_Witness ==
    /\ ret.kind = "call"
    /\ ret.op = "delete"
    /\ ret.avgErr
    /\ ret.res = Ok
    /\ ret.sent = "sent"
    /\ GetByID(ret.id) = NoReview
    /\ events[Len(events)].type = EventReviewDeleted
    /\ avgRating[ret.review.movie] # AverageOf({r \in reviews : r.movie = ret.review.movie})

\* The rows of a movie.
ReviewsOf(m) ==
    {r \in reviews : r.movie = m}

\* C13 as stated: with no call in progress and a movie's aggregate fresh, the
\* movie's average_rating is exactly the mean of its reviews' ratings, and 0
\* without reviews.
C13_ExactMean ==
    \A m \in Movies :
        (Quiet /\ fresh[m]) =>
            IF ReviewsOf(m) = {} THEN avgRating[m] = 0
            ELSE avgRating[m] * Cardinality(ReviewsOf(m)) = 100 * SumRatings(ReviewsOf(m))

\* C13: with no call in progress and a movie's aggregate fresh (its last
\* recomputation succeeded and came after the last change of its reviews),
\* the movie's average_rating is the mean of its reviews' ratings rounded to
\* two decimals, and 0 without reviews.
C13_RoundedMean ==
    \A m \in Movies :
        (Quiet /\ fresh[m]) =>
            IF ReviewsOf(m) = {} THEN avgRating[m] = 0
            ELSE LET n == Cardinality(ReviewsOf(m))
                     sum == 100 * SumRatings(ReviewsOf(m))
                 IN /\ 2 * (avgRating[m] * n - sum) <= n
                    /\ 2 * (sum - avgRating[m] * n) <= n

\* C13 witness: two reviews with different ratings, nothing in progress, the
\* aggregate fresh and between the two ratings.
C13_Witness ==
    /\ Quiet
    /\ fresh[1]
    /\ Cardinality(ReviewsOf(1)) = 2
    /\ avgRating[1] = 650

\* C14: a run of UpdateAverageRating changes nothing but the movie's
\* average_rating, and a run that follows a run for the same movie which
\* reached the store, with no change of the reviews in between, leaves the
\* average_rating as the first run left it.
C14_Step ==
    ret'.kind = "average" =>
        /\ UNCHANGED <<reviews, nextId, events, accepted, auditLog, th, worker>>
        /\ \A m \in Movies : m # ret'.movie => avgRating'[m] = avgRating[m]
        /\ ret'.avgN = 2 => avgRating' = avgRating

C14_RecomputeIdempotent ==
    [][C14_Step]_vars

\* C14 witness: the second of two successful runs for a movie with three
\* reviews, whose stored average was stale before the first run.
C14_Witness ==
    /\ ret.kind = "average"
    /\ ret.avgN = 2
    /\ ret.res = Ok
    /\ ret.movie = 1
    /\ Cardinality(reviews) = 3
    /\ avgRating[1] = 767

\* The row with an id in a reviews table (NoReview when there is none).
RowOf(table, id) ==
    IF \E r \in table : r.id = id
    THEN CHOOSE r \in table : r.id = id
    ELSE NoReview

\* Goroutine t runs the store's Update in this step.
Writes(t) ==
    th[t].pc = "u_write" /\ th'[t].pc # "u_write"

\* C15: with one call at a time, the store write of an Update sets rating,
\* title and content of the review to the request's value where that is not
\* zero / empty and leaves the stored value otherwise; id, movie and author of
\* the review and every other review stay as they are; the call then returns
\* success with the review still stored as written.
C15_Step ==
    /\ \A t \in Threads :
          Writes(t) =>
             LET old == RowOf(reviews, th[t].id)
                 new == RowOf(reviews', th[t].id)
                 req == th[t].req
             IN /\ old # NoReview
                /\ new.rating = IF req.rating # 0 THEN req.rating ELSE old.rating
                /\ new.title = IF req.title # "" THEN req.title ELSE old.title
                /\ new.content = IF req.content # "" THEN req.content ELSE old.content
                /\ new.id = old.id
                /\ new.movie = old.movie
                /\ new.user = old.user
                /\ reviews' \ {new} = reviews \ {old}
                /\ th'[t].pc = "recompute"
    /\ (Returns("update") /\ ret'.res = Ok) =>
          /\ reviews' = reviews
          /\ RowOf(reviews', ret'.id) = ret'.review
          /\ ret'.req.rating # 0 => ret'.review.rating = ret'.req.rating
          /\ ret'.req.title # "" => ret'.review.title = ret'.req.title
          /\ ret'.req.content # "" => ret'.review.content = ret'.req.content

C15_PartialUpdate ==
    [][C15_Step]_vars

\* C15 witness: an Update that set only the title returned success; the
\* review has the new title and the rating and content it was created with.
C15_Witness ==
    /\ ret.kind = "call"
    /\ ret.op = "update"
    /\ ret.res = Ok
    /\ ret.req = [rating |-> 0, title |-> "b", content |-> ""]
    /\ RowOf(reviews, ret.id).rating = 9
    /\ RowOf(reviews, ret.id).title = "b"
    /\ RowOf(reviews, ret.id).content = "x"

\* C16 as stated: the store write of an Update whose request leaves rating at
\* 0 leaves the stored rating of the review as it is, whatever other calls
\* did since the Update read the review.
C16_RatingKept ==
    [][\A t \in Threads :
          (Writes(t) /\ th[t].req.rating = 0) =>
             RowOf(reviews', th[t].id).rating = RowOf(reviews, th[t].id).rating]_vars

\* C16, what the code does: the store write of an Update whose request leaves
\* rating at 0 stores the rating the Update read at GetByID.
C16_WritesRatingRead ==
    [][\A t \in Threads :
          (Writes(t) /\ th[t].req.rating = 0 /\ RowOf(reviews, th[t].id) # NoReview) =>
             RowOf(reviews', th[t].id).rating = th[t].review.rating]_vars

\* C16 witness: an Update to rating 9 returned success, and the review is
\* stored with rating 4 again, written back by the same author's other
\* Update, whose request left rating at 0.
C16_Witness ==
    /\ ret.kind = "call"
    /\ ret.op = "update"
    /\ ret.res = Ok
    /\ ret.req.rating = 9
    /\ RowOf(reviews, ret.id).rating = 4
    /\ \E t \in Threads :
          /\ th[t].op = "update"
          /\ th[t].id = ret.id
          /\ th[t].user = ret.user
          /\ th[t].req.rating = 0
          /\ th[t].pc \in {"recompute", "emit"}

\* C17: through the handlers every stored review has a rating from 1 to 10;
\* a Create with a rating outside 1..10 and an Update with a non-zero rating
\* outside 1..10 are answered by the handler with 400, never reach the service
\* and change nothing.
C17_Step ==
    /\ \A r \in reviews' : r.rating >= 1 /\ r.rating <= 10
    /\ \A t \in Threads :
          /\ GoesOn(t, "create") => th'[t].req.rating \in 1..10
          /\ GoesOn(t, "update") => th'[t].req.rating \in 0..10
    /\ (Returns("create") /\ ret'.req.rating \notin 1..10) =>
          /\ ret'.res = ErrBadRating
          /\ ret'.mut = 0
          /\ NothingChanged
    /\ (Returns("update") /\ ret'.req.rating \notin 0..10) =>
          /\ ret'.res = ErrBadRating
          /\ ret'.mut = 0
          /\ NothingChanged

C17_RatingRange ==
    [][C17_Step]_vars

\* C17 witness: an Update to rating 11 of a stored review was answered with
\* 400 and the review has the rating it had.
C17_Witness ==
    /\ ret.kind = "call"
    /\ ret.op = "update"
    /\ ret.req.rating = 11
    /\ ret.res = ErrBadRating
    /\ \E r \in reviews : r.rating = 10

\* C18: on a service built with a nil channel, emitEvent can always run and
\* does nothing: the call returns success with the same review, mutation and
\* recomputation as it returns with a channel, the stored reviews and
\* averages stay as they are and no event exists; a call returns success
\* only from emitEvent, an error never from it.
C18_Step ==
    /\ \A t \in Threads : th[t].pc = "emit" => ENABLED emitEvent(t)
    /\ \A t \in Threads :
          (Emits(t) /\ eventsNil) =>
             /\ ret' = [Returned(th[t], Ok, "sent") EXCEPT !.sent = "nil"]
             /\ ret'.mut # 0
             /\ ret'.recomputed
             /\ th'[t] = Idle
             /\ NothingChanged
    /\ eventsNil => (events' = <<>> /\ accepted' = 0)
    /\ (ret'.kind = "call" /\ ret'.res = Ok) <=> \E t \in Threads : Emits(t)

C18_NilChannelNoOp ==
    [][C18_Step]_vars

\* C18 witness: with a nil channel a Create returned success, its review is
\* stored and the average was recomputed.
C18_Witness ==
    /\ eventsNil
    /\ ret.kind = "call"
    /\ ret.op = "create"
    /\ ret.res = Ok
    /\ ret.sent = "nil"
    /\ ret.review \in reviews
    /\ avgRating[ret.review.movie] = 100 * ret.review.rating

\* C19: per key and window, at most MaxPerMinute requests are passed to the
\* next handler; a request is passed on exactly when it is among the first
\* MaxPerMinute counted in its window and answered 429 otherwise; counting a
\* request of one key leaves the state of every other key as it is.
C19_Step ==
    /\ \A k \in Keys, w \in WindowEnds : admitted'[k][w] <= MaxPerMinute
    /\ \A t \in Threads :
          (rl[t].pc = "decide" /\ rl'[t].pc = "done") =>
             /\ rl[t].currentCount = rl[t].pos
             /\ rl'[t].status = IF rl[t].pos > MaxPerMinute THEN 429 ELSE 200
             /\ rl'[t].status = 429 => admitted' = admitted
    /\ \A t \in Threads :
          rl'[t] # rl[t] =>
             \A k \in Keys \ {rl'[t].key} :
                /\ rateStore'[k] = rateStore[k]
                /\ entered'[k] = entered[k]
                /\ admitted'[k] = admitted[k]

C19_RateLimit ==
    [][C19_Step]_vars

\* C19 witness: a request was answered 429 in a window in which MaxPerMinute
\* requests of its key were passed on, while another key has a window of its
\* own with a request passed on.
C19_Witness ==
    \E t \in Threads :
        /\ rl[t].pc = "done"
        /\ rl[t].status = 429
        /\ admitted[rl[t].key][rl[t].windowEnd] = MaxPerMinute
        /\ \E k \in Keys \ {rl[t].key} : \E w \in WindowEnds : admitted[k][w] = 1

\* The password an address was registered with is the one asked for.
RightPassword(req) ==
    \E u \in accounts, salt \in Salts :
        u.email = req.email /\ u.hash = HashPassword(req.password, salt)

\* C20: a Login with a well-formed request that reached the store returns
\* ErrInvalidCredentials, no user and no token both when no user has the
\* email and when a user has it with another password; only the right
\* password of a registered email returns a user.
C20_LoginUniform ==
    (ret.kind = "login" /\ ValidLogin(ret.req) /\ ~ret.dbFails) =>
        /\ (~\E u \in accounts : u.email = ret.req.email) =>
              /\ ret.err = ErrInvalidCredentials
              /\ ret.user = NoUser
              /\ ret.token = NoToken
        /\ ((\E u \in accounts : u.email = ret.req.email) /\ ~RightPassword(ret.req)) =>
              /\ ret.err = ErrInvalidCredentials
              /\ ret.user = NoUser
              /\ ret.token = NoToken
        /\ ret.user # NoUser =>
              /\ RightPassword(ret.req)
              /\ ret.user.email = ret.req.email
              /\ ret.err = Ok

\* C20 witness: a Login for a registered email with the password of another
\* registered user was refused.
C20_Witness ==
    /\ ret.kind = "login"
    /\ ret.err = ErrInvalidCredentials
    /\ ret.user = NoUser
    /\ ret.token = NoToken
    /\ \E u, v \in accounts :
          /\ u.email = ret.req.email
          /\ v.email # u.email
          /\ CheckPassword(v.hash, ret.req.password)
          /\ u.hash # v.hash

\* C20 witness: a Login for an email nobody registered was refused likewise.
C20_WitnessUnknown ==
    /\ ret.kind = "login"
    /\ ret.err = ErrInvalidCredentials
    /\ ret.req.email = "eve@x.io"
    /\ accounts # {}

\* ------------------------------------------------------------------- C21
\* The address of the request is in the users table.
EmailStored(req) ==
    \E u \in accounts : u.email = req.email

\* C21: Register creates users only with role "user".  Every user in the
\* table has role "user"; a Register that returns no error has added exactly
\* the user it returns, with the request's email and role "user", and returns
\* the token of that user; a Register that finds its email in the table
\* returns ErrUserExists (or the lookup's error) and no Register called with
\* a stored email adds a user.
C21_Step ==
    /\ \A u \in accounts' : u.role = "user"
    /\ (ret'.kind = "register" /\ ret'.err = Ok) =>
          /\ ret'.user \notin accounts
          /\ accounts' = accounts \cup {ret'.user}
          /\ ret'.user.role = "user"
          /\ ret'.user.email = ret'.req.email
          /\ ret'.token # NoToken
          /\ ret'.token = Generate(ret'.user.id, "user")
    /\ (ret'.kind = "register" /\ EmailStored(ret'.req)) =>
          /\ accounts' = accounts
          /\ ret'.err # Ok
          /\ (ops' # ops /\ ValidRegister(ret'.req)) => ret'.err \in {ErrUserExists, ErrStore}
    /\ (ret'.kind = "register" /\ ret'.err = ErrUserExists) =>
          /\ EmailStored(ret'.req)
          /\ accounts' = accounts

C21_RegisterRoleUser == [][C21_Step]_vars

\* Two users are registered and a third Register, with a stored email, has
\* returned ErrUserExists.
C21_Witness ==
    /\ ret.kind = "register"
    /\ ret.err = ErrUserExists
    /\ EmailStored(ret.req)
    /\ Cardinality(accounts) = 2
    /\ \A u \in accounts : u.role = "user" /\ u.id \in {1, 2}

\* ------------------------------------------------------------------- C22
\* The header carries a bearer token that jwt.Parse accepts under the secret.
Authenticated(header) ==
    /\ header[1] = "Bearer "
    /\ header[2] \in SignedTokens
    /\ header[2].key = Secret
    /\ ~header[2].expired

\* C22: the handler behind RequireRoles("admin") runs only for a request
\* whose bearer token AuthMiddleware accepted and whose role is "admin"; a
\* request without a valid token ends with 401, an authenticated one with
\* another role with 403, both without the handler having run; the admin's
\* request ends with the handler's status.
C22_RoleGate ==
    /\ (gate.pc = "handler" \/ gate.ran) =>
          /\ Authenticated(gate.header)
          /\ gate.header[2].role \in Allowed
          /\ gate.role = gate.header[2].role
    /\ gate.pc = "done" =>
          /\ ~Authenticated(gate.header) <=> gate.status = 401
          /\ (Authenticated(gate.header) /\ gate.header[2].role \notin Allowed)
                <=> gate.status = 403
          /\ gate.status \in {401, 403} => ~gate.ran
          /\ gate.ran <=> gate.status = 200

\* A correctly signed token of role "user" was answered 403.
C22_Witness ==
    /\ gate.pc = "done"
    /\ gate.status = 403
    /\ ~gate.ran
    /\ Authenticated(gate.header)
    /\ gate.header[2].role = "user"

\* ------------------------------------------------------------------- C23
\* The page and the limit of the last list call, as the claim normalises them.
C23_Page == IF listing.page <= 0 THEN 1 ELSE listing.page
C23_Limit == IF listing.limit <= 0 THEN 10 ELSE listing.limit

\* C23, as stated: ListByMovie and ListByUser query the store with the
\* normalised limit and with offset (page - 1) * limit, which is never
\* negative.
C23_OffsetNeverNegative ==
    listing.op # "none" =>
        /\ listing.queryLimit = C23_Limit
        /\ listing.queryOffset = (C23_Page - 1) * C23_Limit
        /\ listing.queryOffset >= 0

\* C23, what the code guarantees: the limit is normalised, the offset is
\* (page - 1) * limit in int arithmetic, and it is the product itself, hence
\* not negative, whenever the product fits an int; the call changes nothing
\* of the store and sends no event.
C23_Step ==
    listing' # listing =>
        /\ listing'.queryLimit = (IF listing'.limit <= 0 THEN 10 ELSE listing'.limit)
        /\ listing'.queryLimit > 0
        /\ LET page == IF listing'.page <= 0 THEN 1 ELSE listing'.page
               product == (page - 1) * listing'.queryLimit
           IN /\ listing'.queryOffset = Wrap(product)
              /\ product <= MaxInt =>
                    listing'.queryOffset = product /\ listing'.queryOffset >= 0
        /\ UNCHANGED <<reviews, nextId, avgRating, events, accepted, auditLog>>

C23_Normalised == [][C23_Step]_vars

\* A call with page 0 and limit 0 queried the first ten rows.
C23_Witness ==
    /\ listing.op = "ListByUser"
    /\ listing.page = 0
    /\ listing.limit = 0
    /\ listing.queryLimit = 10
    /\ listing.queryOffset = 0

\* ------------------------------------------------------------------- C24
\* The store mutation of the event's operation has been applied: the review
\* got its id from the store, and the review of a deleted event is gone.
MutationApplied(e, rows, next) ==
    /\ e.review >= 1
    /\ e.review < next
    /\ e.type = EventReviewDeleted => \A r \in rows : r.id # e.review

\* C24: a call runs its store mutation, then the aggregate updater, then
\* emitEvent, in this order; an event enters the channel only in the
\* emitEvent of a call whose mutation and recomputation are done, and for
\* every event in the channel or in the worker's hands the mutation it
\* reports has been applied to the store.
C24_Step ==
    /\ \A t \in Threads :
          /\ (th'[t].pc = "recompute" /\ th[t].pc # "recompute") =>
                /\ th[t].pc \in {"c_insert", "u_write", "d_exec"}
                /\ th'[t].mut # 0
                /\ ~th'[t].recomputed
                /\ th[t].op = "create" => th'[t].review \in reviews' \ reviews
                /\ th[t].op = "update" => reviews' = UpdatedRows(th[t].review)
                /\ th[t].op = "delete" => \A r \in reviews' : r.id # th[t].id
          /\ (th'[t].pc = "emit" /\ th[t].pc # "emit") =>
                /\ th[t].pc = "recompute"
                /\ th'[t].mut # 0
                /\ th'[t].recomputed
                /\ reviews' = reviews
    /\ Len(events') > Len(events) =>
          \E t \in Threads :
              /\ Emits(t)
              /\ th[t].mut # 0
              /\ th[t].recomputed
              /\ events'[Len(events')].review = th[t].mut
              /\ reviews' = reviews
    /\ \A i \in 1..Len(events') : MutationApplied(events'[i], reviews', nextId')
    /\ worker'.e # NoEvent => MutationApplied(worker'.e, reviews', nextId')

C24_MutationBeforeEvent == [][C24_Step]_vars

\* The channel holds the created and the deleted event of review 1, which
\* was stored and is gone.
C24_Witness ==
    /\ Len(events) = 2
    /\ events[1].type = EventReviewCreated
    /\ events[2].type = EventReviewDeleted
    /\ events[1].review = 1
    /\ events[2].review = 1
    /\ nextId = 2
    /\ reviews = {}

\* ------------------------------------------------------------------- C25
\* The errors Create, Update and Delete return.
CallErrors ==
    {ErrValidation, ErrMovieNotFound, ErrReviewExists, ErrReviewNotFound,
     ErrInvalidCredentials, ErrUniqueViolation, ErrCheckViolation}

\* C25: a Create, Update or Delete that returns an error has sent no event
\* and has not run the aggregate updater: the step that returns the error
\* leaves channel, averages and stored reviews as they are, and the call did
\* not recompute before; every call that returns without having reached
\* emitEvent returns one of the errors, and a Create whose request fails the
\* validation returns at once.
C25_Step ==
    /\ (ret'.kind = "call" /\ ret'.res # Ok) =>
          /\ ret'.res \in CallErrors
          /\ ret'.sent = "none"
          /\ ~ret'.recomputed
          /\ events' = events
          /\ accepted' = accepted
          /\ avgRating' = avgRating
          /\ reviews' = reviews
          /\ \A t \in Threads : ~Emits(t) /\ (th[t].pc = "recompute" => th'[t] = th[t])
    /\ \A t \in Threads :
          (th[t].pc \notin {"idle", "emit"} /\ th'[t].pc = "idle") =>
              (ret'.kind = "call" /\ ret'.res # Ok)
    /\ \A t \in Threads :
          GoesOn(t, "create") =>
              (th'[t].req.rating >= 1 /\ th'[t].req.rating <= 10 /\ th'[t].req.title # "")

NamesRow(e, r) ==
    e.review = r.id /\ e.user = r.user /\ e.movie = r.movie

\* The worker's audit write of the event in its hands adds an entry.
AuditWritten ==
    WorkerAudit /\ Len(auditLog') = Len(auditLog) + 1

C26_Step ==
    /\ \A t \in Threads :
          /\ (GoesOn(t, "update") \/ GoesOn(t, "delete")) =>
                \E r \in reviews :
                    /\ r.id = th'[t].id
                    /\ th'[t].review.id = r.id
                    /\ th'[t].review.user = r.user
                    /\ th'[t].review.movie = r.movie
          /\ (th[t].pc = "c_insert" /\ th'[t].pc = "recompute") =>
                /\ th'[t].review \in reviews'
                /\ th'[t].review.user = th[t].user
                /\ th'[t].review.movie = th[t].movie
          /\ (Emits(t) /\ Len(events') > Len(events)) =>
                /\ NamesRow(events'[Len(events')], th[t].review)
                /\ events'[Len(events')].type = KindOf(th[t].op)
    /\ \A i \in 1..Len(events') : \A r \in reviews' :
          r.id = events'[i].review => NamesRow(events'[i], r)
    /\ (ret'.kind = "call" /\ ret'.op = "delete" /\ ret'.sent = "sent") =>
          /\ events'[Len(events')].user = ret'.review.user
          /\ (ret'.review.user # ret'.user) => ret'.admin
    /\ Len(auditLog') > Len(auditLog) =>
          /\ auditLog'[Len(auditLog')] = AuditEntry(worker.e)
          /\ auditLog'[Len(auditLog')].user = <<worker.e.user>>
          /\ worker.e.type # EventReviewDeleted
    /\ (worker.pc = "audit" /\ worker.e.type = EventReviewDeleted) =>
          (ret'.kind = "handled" => (ret'.auditErr /\ auditLog' = auditLog))

NilIffZero(ref, v) ==
    /\ ref = <<>> <=> v = 0
    /\ v # 0 => ref = <<v>>

\* C27: the worker handles an event whose movie reference is 0 without a call
\* of the aggregate updater, leaving every average as it is, and with exactly
\* one audit write, like every other event; the entry it hands to the audit
\* writer has the user, movie and review reference nil exactly when the
\* event's value is 0 and equal to it otherwise, and the event's kind as its
\* event string; an entry added to the audit log is that entry.
C27_Step ==
    /\ (worker.pc = "avg" /\ worker.e.movie = 0 /\ worker' # worker) =>
          /\ avgRating' = avgRating
          /\ fresh' = fresh
          /\ worker'.avgN = 0
          /\ worker'.pc = "audit"
    /\ ret'.kind = "handled" =>
          /\ ret'.auditN = 1
          /\ ret'.avgN = (IF ret'.e.movie = 0 THEN 0 ELSE 1)
          /\ worker.pc = "audit"
          /\ LET entry == AuditEntry(ret'.e)
             IN /\ NilIffZero(entry.user, ret'.e.user)
                /\ NilIffZero(entry.movie, ret'.e.movie)
                /\ NilIffZero(entry.review, ret'.e.review)
                /\ entry.event = ret'.e.type
                /\ \/ auditLog' = auditLog /\ ret'.auditErr
                   \/ auditLog' = Append(auditLog, entry) /\ ~ret'.auditErr

C27_ZeroReferences == [][C27_Step]_vars

\* An event without movie and review reference was handled: no call of the
\* aggregate updater, one audit write, and the entry in the log.
C27_Witness ==
    /\ ret.kind = "handled"
    /\ ret.e.movie = 0
    /\ ret.e.review = 0
    /\ ret.e.user = 1
    /\ ret.avgN = 0
    /\ ret.auditN = 1
    /\ Len(auditLog) >= 1
    /\ auditLog[Len(auditLog)].movie = <<>>
    /\ auditLog[Len(auditLog)].review = <<>>
    /\ auditLog[Len(auditLog)].user = <<1>>
    /\ auditLog[Len(auditLog)].event = ret.e.type

\* ------------------------------------------------------------------- C28
\* The deleted events in the channel that name the review.
DeletedEventsOf(id) ==
    {i \in 1..Len(events) :
        events[i].type = EventReviewDeleted /\ events[i].review = id}

\* C28: a Delete that has read the review goes through whether or not the
\* row is still stored when its DELETE runs: the DELETE of a missing row
\* changes nothing and reports no error, and the call recomputes, sends its
\* review_deleted event when the channel has room and returns success, so two
\* Deletes that both read before either deleted both succeed.  A Delete that
\* starts when the review is gone (one call after the other) returns
\* ErrReviewNotFound at once and sends nothing.
C28_Step ==
    /\ \A t \in Threads :
          (th[t].pc = "d_exec" /\ th'[t] # th[t]) =>
              /\ th'[t].pc = "recompute"
              /\ ret'.kind # "call"
              /\ \A r \in reviews' : r.id # th[t].id
              /\ (\A r \in reviews : r.id # th[t].id) => reviews' = reviews
    /\ \A t \in Threads :
          (Emits(t) /\ th[t].op = "delete") =>
              /\ ret'.res = Ok
              /\ Len(events) < ChanCap =>
                    /\ ret'.sent = "sent"
                    /\ events'[Len(events')].type = EventReviewDeleted
                    /\ events'[Len(events')].review = th[t].id
    /\ (ReturnsAtOnce("delete") /\ \A r \in reviews : r.id # ret'.id) =>
          /\ ret'.res = ErrReviewNotFound
          /\ ret'.sent = "none"
          /\ events' = events
          /\ accepted' = accepted

C29_FirstRequestAdmitted ==
    \A t \in Threads :
        (rl[t].pc = "done" /\ rl[t].firstAfter) => rl[t].status = 200

\* C29, what the code guarantees: the critical section sets a key's window
\* end exactly when the key has no window or the request's time is strictly
\* after the window end, to that time plus the window, with count 1;
\* otherwise it adds 1 to the count and leaves the window end, so a request
\* that is rejected has not moved the window; a window end never moves back;
\* the request that is counted first with a time after the window end, also
\* of a key that was over the limit, has count 1 and is admitted.
C29_Step ==
    \A t \in Threads :
        /\ (rl[t].pc = "lock" /\ rl'[t].pc = "decide") =>
              LET old == rateStore[rl[t].key]
                  new == rateStore'[rl[t].key]
              IN /\ new.windowEnd >= old.windowEnd
                 /\ IF old.windowEnd = 0 \/ rl[t].now > old.windowEnd
                    THEN /\ new.windowEnd = rl[t].now + Window
                         /\ new.windowEnd # old.windowEnd
                         /\ new.count = 1
                         /\ rl'[t].currentCount = 1
                    ELSE /\ new.windowEnd = old.windowEnd
                         /\ new.count = old.count + 1
                 /\ rl'[t].currentCount > MaxPerMinute =>
                       (new.windowEnd = old.windowEnd /\ new.count = old.count + 1)
        /\ rl'[t] = rl[t] =>
              (rl[t].key \in Keys => rateStore'[rl[t].key].windowEnd
                                        >= rateStore[rl[t].key].windowEnd)
        /\ (rl[t].pc = "decide" /\ rl'[t].pc = "done") =>
              /\ rateStore' = rateStore
              /\ rl[t].currentCount = 1 => rl'[t].status = 200

C29_WindowReset == [][C29_Step]_vars

\* A key went over the limit in one window, and its request counted first
\* after that window's end opened a new window and was admitted.
C29_Witness ==
    \E t \in Threads, w \in WindowEnds :
        /\ rl[t].pc = "done"
        /\ rl[t].status = 200
        /\ rl[t].currentCount = 1
        /\ rl[t].firstAfter
        /\ w # 0
        /\ w < rl[t].now
        /\ entered[rl[t].key][w] > MaxPerMinute
        /\ rateStore[rl[t].key].windowEnd = rl[t].now + Window

\* ------------------------------------------------------------------- C30
\* The scalar fields of the row are what the request asked for: the request's
\* value where it is set, the value before the call otherwise.
ScalarsPersisted(before, after, req) ==
    /\ after.title = (IF req.title # "" THEN req.title ELSE before.title)
    /\ after.description =
          (IF req.description # "" THEN req.description ELSE before.description)
    /\ after.releaseYear =
          (IF req.releaseYear # 0 THEN req.releaseYear ELSE before.releaseYear)
    /\ after.director = (IF req.director # "" THEN req.director ELSE before.director)
    /\ after.durationMinutes =
          (IF req.durationMinutes # 0 THEN req.durationMinutes
           ELSE before.durationMinutes)

\* C30: MovieService.Update writes the scalar fields before it looks at the
\* requested genre ids: a call that returns ErrNoGenresProvided (an empty
\* genre list) or ErrGenreNotFound (an id that is no number or names no
\* genre) has persisted the requested title, description, release year,
\* director and duration and left the movie's genre set as it was; a call
\* for a movie that is not stored returns ErrMovieNotFound and changes
\* nothing.
C30_Step ==
    ret'.kind = "movie" =>
        /\ ret'.err \in {ErrNoGenresProvided, ErrGenreNotFound} =>
              /\ ret'.id \in DOMAIN movieRows
              /\ ScalarsPersisted(movieRows[ret'.id], movieRows'[ret'.id], ret'.req)
              /\ movieRows'[ret'.id].genres = movieRows[ret'.id].genres
              /\ ~ret'.req.genreIDs.nil
        /\ (ret'.id \in DOMAIN movieRows /\ ~ret'.req.genreIDs.nil
              /\ ret'.req.genreIDs.ids = <<>>)
              => ret'.err \in {ErrNoGenresProvided, ErrStore}
        /\ (ret'.id \in DOMAIN movieRows /\ ~ret'.req.genreIDs.nil
              /\ \E i \in 1..Len(ret'.req.genreIDs.ids) :
                    ret'.req.genreIDs.ids[i] \notin {"1", "2"})
              => ret'.err \in {ErrGenreNotFound, ErrStore}
        /\ ret'.id \notin DOMAIN movieRows <=> ret'.err = ErrMovieNotFound
        /\ ret'.err = ErrMovieNotFound => movieRows' = movieRows
        /\ UNCHANGED <<reviews, nextId, avgRating, events, accepted, auditLog>>

C30_ScalarsBeforeGenres == [][C30_Step]_vars

\* An Update with every scalar field set and a genre id that names no genre
\* returned ErrGenreNotFound: the scalar fields are changed, the genre set is
\* the one the movie had.
C30_Witness ==
    /\ ret.kind = "movie"
    /\ ret.err = ErrGenreNotFound
    /\ ret.req.title = "New"
    /\ ret.req.releaseYear = 2001
    /\ movieRows[1].title = "New"
    /\ movieRows[1].releaseYear = 2001
    /\ movieRows[1].director = "Dir2"
    /\ movieRows[1].durationMinutes = 120
    /\ movieRows[1].genres = {1}

====
